---------------------------- MODULE Spec2Model ----------------------------
(***************************************************************************)
(* Model of ci_core_rs/src/build.rs: handle_build, the kernel build        *)
(* pipeline.  One invocation of handle_build is a process p; its local     *)
(* variables live in st[p], its arguments in args[p].  The working         *)
(* directory (fs), the loaded project table (projects) and the inherited   *)
(* process environment (env) are shared.  Every external command and every *)
(* filesystem operation the pipeline performs is one step and is appended  *)
(* to st[p].log.                                                           *)
(*                                                                         *)
(* Strings the code takes apart or builds (branch labels, localversion,    *)
(* archive names, PATH) are sequences of tokens; a token is a character or *)
(* an opaque chunk.                                                        *)
(***************************************************************************)
EXTENDS Naturals, Sequences, FiniteSets, TLC

VARIABLES projects, env, fs, args, st

vars == <<projects, env, fs, args, st>>

\* ------------------------------------------------------------------ bounds
MaxUrls == 2
MaxExports == 2
MaxDisables == 1
MaxLines == 2

\* ----------------------------------------------------------------- options
None == [some |-> FALSE]
Some(v) == [some |-> TRUE, val |-> v]

\* Option<&str>::unwrap_or(d)
UnwrapOr(o, d) == IF o.some THEN o.val ELSE d

\* ----------------------------------------------------------------- strings
Lower == <<"a","b","c","d","e","f","g","h","i","j","k","l","m",
           "n","o","p","q","r","s","t","u","v","w","x","y","z">>
Upper == <<"A","B","C","D","E","F","G","H","I","J","K","L","M",
           "N","O","P","Q","R","S","T","U","V","W","X","Y","Z">>

\* char::to_uppercase on one (ASCII) character
UpperChar(c) ==
    IF \E k \in 1..Len(Lower) : Lower[k] = c
    THEN Upper[CHOOSE k \in 1..Len(Lower) : Lower[k] = c]
    ELSE c

\* str::to_uppercase
ToUppercase(s) == [k \in 1..Len(s) |-> UpperChar(s[k])]

\* the branch labels the code matches on
B_wildksu == <<"w","i","l","d","k","s","u">>
B_ksu == <<"k","s","u">>
B_mksu == <<"m","k","s","u">>
B_resukisu == <<"r","e","s","u","k","i","s","u">>
B_sukisuultra == <<"s","u","k","i","s","u","u","l","t","r","a">>
B_main == <<"m","a","i","n">>
B_lkm == <<"l","k","m">>
\* labels the code does not know
B_dev == <<"d","e","v">>
B_Ksu == <<"K","s","u">>

Branches == {B_wildksu, B_ksu, B_mksu, B_resukisu, B_sukisuultra, B_main,
             B_lkm, B_dev, B_Ksu}

\* ------------------------------------------------------------------- paths
\* A path is a sequence of components; an absolute path starts with "/".
Cwd == <<"/", "work">>
KernelSource == <<"kernel_source">>
TcDownloadDir == <<"toolchain_download">>
AnyKernelDir == <<"AnyKernel3">>

\* Path::join: an absolute right-hand side replaces the left-hand side
PathJoin(a, b) == IF b # <<>> /\ b[1] = "/" THEN b ELSE a \o b

\* ------------------------------------------------------------------ inputs
KnownKey == <<"device", "_", "socA">>
UnknownKey == <<"device">>
Defconfig == "socA_defconfig"

AllUrls == <<"u1", "u2", "u3", "u4">>
AllExports == << <<"clang", "bin">>, <<"/", "opt", "gcc", "bin">>,
                 <<"build-tools", "bin">>, <<"rust", "bin">> >>
DisableNames == {"PROCA", "SUSFS", "CONFIG_KSU_MANUAL_HOOK"}

SeqsUpTo(S, n) == UNION {[1..k -> S] : k \in 0..n}

UrlChoices == {None} \cup {Some(SubSeq(AllUrls, 1, k)) : k \in 0..MaxUrls}
ExportChoices ==
    {None} \cup {Some(SubSeq(AllExports, 1, k)) : k \in 0..MaxExports}
PrefixChoices == {None, Some(<<>>), Some(<<"tc">>)}
DisableChoices == {None} \cup {Some(d) : d \in SeqsUpTo(DisableNames, MaxDisables)}
LtoChoices == {None, Some("thin"), Some("full"), Some("none")}
MethodChoices == {None, Some("file"), Some("param")}
BaseChoices == {<<"-", "M", "y">>, <<"-", "-", "X">>}
PrefixNames == {None, Some(<<"Dev">>)}
PathChoices == {None, Some(<<"/usr/bin">>)}

\* fs/namespace.c is a sequence of lines and a line a sequence of pieces
\* of text; the three texts the edits of lines 171-196 look for are pieces
Guard == "if (flags & CLONE_NEWNS)"
Accumulation == "copy_flags |= CL_COPY_MNT_NS"
Anchor == "copy_flags = CL_COPY_UNBINDABLE | CL_EXPIRE;"
NamespaceLines ==
    {<<"int err;">>,
     <<"  ", Guard>>,
     <<"    ", Accumulation, ";">>,
     <<"  ", Anchor>>,
     <<Anchor, " ", Anchor>>,
     <<Anchor, " ", Guard>>}
NamespaceChoices == SeqsUpTo(NamespaceLines, MaxLines)
\* the file as the misplaced hook patch leaves it
DefaultNamespace ==
    << <<"  ", Anchor>>, <<"int err;">>, <<"  ", Guard>>,
       <<"    ", Accumulation, ";">> >>

\* ProjectConfig (crate::config), the fields handle_build reads
DefaultProfile ==
    [defconfig |-> Defconfig,
     toolchain_urls |-> None,
     toolchain_path_prefix |-> None,
     toolchain_path_exports |-> None,
     extra_host_env |-> None,
     disable_security |-> None,
     lto |-> None,
     localversion_base |-> <<"-", "M", "y">>,
     version_method |-> None,
     anykernel_repo |-> None,
     anykernel_branch |-> None,
     zip_name_prefix |-> None,
     repo |-> "org/repo"]

\* One scenario: the arguments, the profile, and the working directory and
\* environment the invocation starts in.
DefaultScenario ==
    [key |-> KnownKey, branch |-> B_ksu, release |-> FALSE,
     profile |-> DefaultProfile,
     path |-> Some(<<"/usr/bin">>),
     has_source |-> TRUE, has_tcdir |-> FALSE, has_defconfig |-> TRUE,
     has_anykernel |-> FALSE, namespace |-> DefaultNamespace]

\* The scenarios vary one group of inputs at a time, each group with the
\* branches it interacts with.
ProvisionScenarios ==
    {[DefaultScenario EXCEPT
        !.branch = b, !.has_tcdir = t,
        !.profile = [DefaultProfile EXCEPT !.toolchain_urls = u]] :
     b \in {B_ksu, B_wildksu}, t \in BOOLEAN, u \in UrlChoices}

EnvScenarios ==
    {[DefaultScenario EXCEPT
        !.branch = b, !.path = ip,
        !.profile = [DefaultProfile EXCEPT
            !.toolchain_path_prefix = pp, !.toolchain_path_exports = ex,
            !.extra_host_env = eh]] :
     b \in {B_ksu, B_wildksu}, ip \in PathChoices, pp \in PrefixChoices,
     ex \in ExportChoices, eh \in {None, Some(TRUE)}}

ConfigScenarios ==
    {sc \in
        {[DefaultScenario EXCEPT
            !.branch = b, !.has_defconfig = d,
            !.profile = [DefaultProfile EXCEPT
                !.disable_security = ds, !.lto = l]] :
         b \in Branches, d \in BOOLEAN, ds \in DisableChoices,
         l \in LtoChoices} :
     sc.has_defconfig \/ sc.branch = B_wildksu}

VersionScenarios ==
    {[DefaultScenario EXCEPT
        !.branch = b, !.release = r,
        !.profile = [DefaultProfile EXCEPT
            !.version_method = m, !.localversion_base = lb]] :
     b \in Branches, r \in BOOLEAN, m \in MethodChoices, lb \in BaseChoices}

PackageScenarios ==
    {[DefaultScenario EXCEPT
        !.release = r, !.has_anykernel = a,
        !.profile = [DefaultProfile EXCEPT
            !.version_method = m, !.zip_name_prefix = z]] :
     r \in BOOLEAN, a \in BOOLEAN, m \in MethodChoices, z \in PrefixNames}

ErrorScenarios ==
    {[DefaultScenario EXCEPT
        !.key = k, !.has_source = s, !.has_tcdir = t, !.branch = b,
        !.profile = [DefaultProfile EXCEPT !.toolchain_urls = u]] :
     k \in {KnownKey, UnknownKey}, s \in BOOLEAN, t \in BOOLEAN,
     b \in {B_ksu, B_wildksu}, u \in {None, Some(<<"u1">>)}}

Scenarios ==
    ProvisionScenarios \cup EnvScenarios \cup ConfigScenarios
        \cup VersionScenarios \cup PackageScenarios \cup ErrorScenarios

\* ------------------------------------------------------------------- state
NoEnv == [k \in {} |-> <<>>]
NoPath == <<>>

Dir(present, files) == [exists |-> present, files |-> files]
File(present, content) == [exists |-> present, content |-> content]

InitFs(sc) ==
    [kernel_source |-> sc.has_source,
     toolchain_download |->
        Dir(sc.has_tcdir, IF sc.has_tcdir THEN {"stale"} ELSE {}),
     toolchain |-> {},
     defconfig |->
        File(sc.has_defconfig,
             IF sc.has_defconfig THEN <<"CONFIG_LOCALVERSION_AUTO=n">>
             ELSE <<>>),
     config |-> File(FALSE, NoEnv),
     localversion |-> File(FALSE, <<>>),
     image |-> FALSE,
     anykernel |->
        Dir(sc.has_anykernel, IF sc.has_anykernel THEN {"old"} ELSE {}),
     archives |-> {},
     namespace_c |-> [before |-> sc.namespace, content |-> sc.namespace]]

InitSt ==
    [pc |-> "start", result |-> "running", error |-> "", i |-> 0,
     build_env |-> NoEnv, make_args |-> <<>>, kernel_version |-> <<>>,
     disable_configs |-> <<>>, short_sha |-> <<>>, variant_suffix |-> <<>>,
     localversion |-> <<>>, date_str |-> <<>>, final_zip_name |-> <<>>,
     log |-> <<>>]

InitOf(sc, P) ==
    /\ projects = (KnownKey :> sc.profile)
    /\ env = [PATH |-> sc.path, LD_LIBRARY_PATH |-> None]
    /\ fs = InitFs(sc)
    /\ args = [p \in P |->
                [project_key |-> sc.key, branch |-> sc.branch,
                 do_release |-> sc.release]]
    /\ st = [p \in P |-> InitSt]

Init == \E sc \in Scenarios : InitOf(sc, {1})

\* a run that goes through every stage of the pipeline
FullScenario ==
    [DefaultScenario EXCEPT
        !.branch = B_wildksu, !.release = TRUE,
        !.profile = [DefaultProfile EXCEPT
            !.toolchain_urls = Some(<<"u1">>), !.lto = Some("thin"),
            !.version_method = Some("file")]]

\* The scenarios of the specification of the text edits: the wildksu branch
\* over every file of up to MaxLines lines, and two runs of the rest of the
\* pipeline
EditScenarios ==
    {[DefaultScenario EXCEPT !.branch = B_wildksu, !.namespace = c] :
     c \in NamespaceChoices}
    \cup {DefaultScenario, FullScenario}

InitEdits == \E sc \in EditScenarios : InitOf(sc, {1})

\* Two invocations of handle_build started in the same working directory,
\* for a profile with one toolchain URL
PairScenarios ==
    {[DefaultScenario EXCEPT
        !.profile = [DefaultProfile EXCEPT !.toolchain_urls = Some(<<"u1">>)]]}

\* the working directory is used by two invocations at once, or by one
InitPair ==
    \/ \E sc \in PairScenarios : InitOf(sc, {1, 2})
    \/ InitOf(FullScenario, {1})

Procs == DOMAIN args

\* the profile of p's project (line 16), once the lookup has succeeded
Proj(p) == projects[args[p].project_key]

\* ------------------------------------------------------ external commands
\* utils::run_cmd(args, cwd, capture): the command runs in cwd with the
\* environment the process inherited; nothing of build_env is passed.
RunCmd(kind, argv, cwd, ok) ==
    [kind |-> kind, argv |-> argv, cwd |-> cwd, with_env |-> FALSE,
     envs |-> NoEnv, ok |-> ok]

\* utils::run_cmd_with_env(args, cwd, env): the mapping is passed along.
RunCmdWithEnv(kind, argv, cwd, e, ok) ==
    [kind |-> kind, argv |-> argv, cwd |-> cwd, with_env |-> TRUE,
     envs |-> e, ok |-> ok]

\* an operation of std::fs performed by the pipeline itself
FsOp(name, path) ==
    [kind |-> "fs", argv |-> <<name>> \o path, cwd |-> NoPath,
     with_env |-> FALSE, envs |-> NoEnv, ok |-> TRUE]

Fail(s, msg) == [s EXCEPT !.pc = "done", !.result = "err", !.error = msg]

\* mutant of Try: the error is dropped and the pipeline goes on
TryIgnore(s, e, next) == [s EXCEPT !.log = Append(@, e), !.pc = next]

\* `run_cmd(...)?`: the invocation e is made; an Err returns from
\* handle_build at once, otherwise control goes on to `next`.
Try(s, e, next) ==
    IF e.ok
    THEN [s EXCEPT !.log = Append(@, e), !.pc = next]
    ELSE Fail([s EXCEPT !.log = Append(@, e)], "command failed")

\* a step of the pipeline itself that cannot fail in the model
Go(s, e, next) == [s EXCEPT !.log = Append(@, e), !.pc = next]

At(p, label) == st[p].pc = label

\* the results a command can report: it cannot succeed in a working
\* directory that does not exist
CanRunIn(cwd_exists) == IF cwd_exists THEN BOOLEAN ELSE {FALSE}

\* ------------------------------------------------ lines 12-21: the checks
LookupProject(p) ==
    /\ At(p, "start")
    /\ st' = [st EXCEPT ![p] =
                IF args[p].project_key \in DOMAIN projects
                THEN [@ EXCEPT !.pc = "check_source"]
                ELSE Fail(@, "Project not found")]
    /\ UNCHANGED <<projects, env, fs, args>>

\* mutant of CheckSource: the source tree is not looked for
CheckSourceSkip(p) ==
    /\ At(p, "check_source")
    /\ st' = [st EXCEPT ![p].pc = "toolchain"]
    /\ UNCHANGED <<projects, env, fs, args>>

\* lines 18-21
CheckSource(p) ==
    /\ At(p, "check_source")
    /\ st' = [st EXCEPT ![p] =
                IF fs.kernel_source
                THEN [@ EXCEPT !.pc = "toolchain"]
                ELSE Fail(@, "Kernel source not found at ./kernel_source")]
    /\ UNCHANGED <<projects, env, fs, args>>

\* ------------------------------------------- lines 24-58: toolchain setup
\* `if let Some(urls)`: the stage runs for every present list, empty or not.
ToolchainWanted(urls) == urls.some

\* mutant of TcRemove: an existing scratch directory is kept as it is
TcRemoveKeep(p) ==
    /\ At(p, "toolchain")
    /\ st' = [st EXCEPT ![p].pc =
                IF ~ToolchainWanted(Proj(p).toolchain_urls)
                THEN "env" ELSE "tc_create"]
    /\ UNCHANGED <<projects, env, fs, args>>

\* lines 24-29: skip the stage, or remove an existing scratch directory
TcRemove(p) ==
    /\ At(p, "toolchain")
    /\ IF ~ToolchainWanted(Proj(p).toolchain_urls)
       THEN /\ st' = [st EXCEPT ![p].pc = "env"]
            /\ UNCHANGED fs
       ELSE IF fs.toolchain_download.exists
       THEN /\ st' = [st EXCEPT ![p] =
                        Go(@, FsOp("remove_dir_all", TcDownloadDir), "tc_create")]
            /\ fs' = [fs EXCEPT !.toolchain_download = Dir(FALSE, {})]
       ELSE /\ st' = [st EXCEPT ![p].pc = "tc_create"]
            /\ UNCHANGED fs
    /\ UNCHANGED <<projects, env, args>>

\* line 30
TcCreate(p) ==
    /\ At(p, "tc_create")
    /\ st' = [st EXCEPT ![p] =
                [Go(@, FsOp("create_dir_all", TcDownloadDir),
                    IF Len(Proj(p).toolchain_urls.val) = 0
                    THEN "tc_extract" ELSE "tc_download")
                 EXCEPT !.i = 1]]
    /\ fs' = [fs EXCEPT !.toolchain_download =
                Dir(TRUE, IF @.exists THEN @.files ELSE {})]
    /\ UNCHANGED <<projects, env, args>>

\* lines 32-35: one iteration of the download loop
TcDownload(p) ==
    /\ At(p, "tc_download")
    /\ LET urls == Proj(p).toolchain_urls.val
           url == urls[st[p].i]
       IN \E ok \in CanRunIn(fs.toolchain_download.exists) :
            /\ st' = [st EXCEPT ![p] =
                        [Try(@, RunCmd("download", <<"wget", "-q", url>>,
                                       TcDownloadDir, ok),
                             IF st[p].i = Len(urls)
                             THEN "tc_extract" ELSE "tc_download")
                         EXCEPT !.i = @ + 1]]
            /\ fs' = IF ok /\ fs.toolchain_download.exists
                     THEN [fs EXCEPT !.toolchain_download.files =
                                        @ \cup {url}]
                     ELSE fs
    /\ UNCHANGED <<projects, env, args>>

\* lines 37-55: the extraction script unpacks whatever the scratch
\* directory holds into its parent directory
TcExtract(p) ==
    /\ At(p, "tc_extract")
    /\ \E ok \in CanRunIn(fs.toolchain_download.exists) :
        /\ st' = [st EXCEPT ![p] =
                    Try(@, RunCmd("extract", <<"bash", "-c", "extract_script">>,
                                  TcDownloadDir, ok),
                        "tc_cleanup")]
        /\ fs' = IF ok
                 THEN [fs EXCEPT !.toolchain =
                                    @ \cup fs.toolchain_download.files]
                 ELSE fs
    /\ UNCHANGED <<projects, env, args>>

\* line 57
TcCleanup(p) ==
    /\ At(p, "tc_cleanup")
    /\ st' = [st EXCEPT ![p] =
                IF fs.toolchain_download.exists
                THEN Go(@, FsOp("remove_dir_all", TcDownloadDir), "env")
                ELSE Fail(@, "io error")]
    /\ fs' = [fs EXCEPT !.toolchain_download = Dir(FALSE, {})]
    /\ UNCHANGED <<projects, env, args>>

\* ------------------------------------ lines 60-118: environment variables
RECURSIVE Display(_)
\* Path::display: the components with their separators
Display(path) ==
    IF Len(path) <= 1 THEN path
    ELSE IF path[1] = "/" THEN <<"/">> \o Display(Tail(path))
    ELSE <<path[1], "/">> \o Display(Tail(path))

\* env::var(name).unwrap_or_default()
EnvVar(name) == UnwrapOr(env[name], <<>>)

\* line 62
ToolchainBase(proj) ==
    PathJoin(Cwd, UnwrapOr(proj.toolchain_path_prefix, <<>>))

\* mutant of Prepend: the segment is put behind the accumulated path
PrependBehind(segment, new_path) == new_path \o <<":">> \o Display(segment)

\* line 72 and line 75: format!("{}:{}", p.display(), new_path)
Prepend(segment, new_path) == Display(segment) \o <<":">> \o new_path

RECURSIVE PrependExports(_, _, _)
\* lines 70-73: the loop over the exports, first to last
PrependExports(exports, base, new_path) ==
    IF exports = <<>> THEN new_path
    ELSE PrependExports(Tail(exports), base,
                        Prepend(PathJoin(base, Head(exports)), new_path))

\* lines 65-76
ComposePath(proj, current_path) ==
    IF proj.toolchain_path_exports.some
    THEN PrependExports(proj.toolchain_path_exports.val,
                        ToolchainBase(proj), current_path)
    ELSE IF UnwrapOr(proj.toolchain_path_prefix, <<>>) # <<>>
    THEN Prepend(PathJoin(ToolchainBase(proj), <<"bin">>), current_path)
    ELSE current_path

\* lines 90-118
ExtraHostEnv(proj) ==
    IF proj.extra_host_env.some /\ proj.extra_host_env.val
    THEN LET kbt == Display(PathJoin(ToolchainBase(proj),
                                     <<"kernel-build-tools", "linux-x86">>))
             sysroot == Display(PathJoin(ToolchainBase(proj),
                            <<"gcc", "linux-x86", "host",
                              "x86_64-linux-glibc2.17-4.8", "sysroot">>))
             sysroot_flag == <<"--sysroot=">> \o sysroot \o <<" ">>
         IN [LD_LIBRARY_PATH |->
                EnvVar("LD_LIBRARY_PATH") \o <<":">> \o kbt \o <<"/lib64">>,
             HOSTCFLAGS |->
                sysroot_flag \o <<"-I">> \o kbt \o <<"/include ">>,
             HOSTLDFLAGS |->
                sysroot_flag \o <<"-L ">> \o kbt
                    \o <<"/lib64 -fuse-ld=lld --rtlib=compiler-rt">>]
    ELSE NoEnv

\* lines 64-118: the mapping as it stands after the stage
ComposeBuildEnv(proj) ==
    ExtraHostEnv(proj) @@
    [PATH |-> ComposePath(proj, EnvVar("PATH")),
     ARCH |-> <<"arm64">>,
     CLANG_TRIPLE |-> <<"aarch64-linux-gnu-">>,
     CROSS_COMPILE |-> <<"aarch64-linux-gnu-">>,
     CROSS_COMPILE_COMPAT |-> <<"arm-linux-gnueabi-">>]

ComposeEnv(p) ==
    /\ At(p, "env")
    /\ st' = [st EXCEPT ![p] =
                [@ EXCEPT !.build_env = ComposeBuildEnv(Proj(p)),
                          !.i = 1,
                          !.pc = IF args[p].branch = B_wildksu
                                 THEN "wild" ELSE "setup"]]
    /\ UNCHANGED <<projects, env, fs, args>>

\* ---------------------------------- lines 123-237: KernelSU integration
SusfsBranch == "gki-android13-5.15"

\* text occurs in the line
Contains(line, text) == \E k \in 1..Len(line) : line[k] = text

RECURSIVE SedDelete(_, _)
\* sed -i '/text/d': every line in which the text occurs is deleted
SedDelete(file, text) ==
    IF file = <<>> THEN <<>>
    ELSE IF Contains(Head(file), text) THEN SedDelete(Tail(file), text)
    ELSE <<Head(file)>> \o SedDelete(Tail(file), text)

\* the replacement `& if (flags \& CLONE_NEWNS) copy_flags |= CL_COPY_MNT_NS;`
\* without its `&`, the matched text
Clause == <<" ", Guard, " ", Accumulation, ";">>

\* mutant of SedSubstituteLine: the clause is put in front of the text
SedSubstituteLineBefore(line, text, added) ==
    IF ~Contains(line, text) THEN line
    ELSE LET k == CHOOSE i \in 1..Len(line) :
                    line[i] = text /\ \A j \in 1..(i - 1) : line[j] # text
         IN SubSeq(line, 1, k - 1) \o added \o SubSeq(line, k, Len(line))

\* s/text/&added/ on one line: the first occurrence of the text, if there
\* is one, is followed by what is added (no g flag)
SedSubstituteLine(line, text, added) ==
    IF ~Contains(line, text) THEN line
    ELSE LET k == CHOOSE i \in 1..Len(line) :
                    line[i] = text /\ \A j \in 1..(i - 1) : line[j] # text
         IN SubSeq(line, 1, k) \o added \o SubSeq(line, k + 1, Len(line))

\* sed -i 's/text/&added/'
SedSubstitute(file, text, added) ==
    [k \in 1..Len(file) |-> SedSubstituteLine(file[k], text, added)]

\* what a command of the wildksu branch that succeeds makes of
\* fs/namespace.c (lines 171-196; the other commands leave it alone)
SedEdit(argv, file) ==
    IF argv[1] # "sed" THEN file
    ELSE CASE argv[3] = "/if (flags & CLONE_NEWNS)/d" ->
                SedDelete(file, Guard)
           [] argv[3] = "/copy_flags |= CL_COPY_MNT_NS/d" ->
                SedDelete(file, Accumulation)
           [] OTHER -> SedSubstitute(file, Anchor, Clause)

\* mutant of WildCmds: the hook patch is fetched and applied before the
\* SUSFS patch
WildCmdsHookFirst ==
    << [kind |-> "setup", argv |-> <<"bash", "-c",
            "curl -LSs 'https://raw.githubusercontent.com/WildKernels/Wild_KSU/wild/kernel/setup.sh' | bash -s wild">>],
       [kind |-> "clone", argv |-> <<"git", "clone", "-b", SusfsBranch,
            "--depth=1", "https://gitlab.com/simonpunk/susfs4ksu.git",
            "susfs4ksu">>],
       [kind |-> "copy", argv |-> <<"bash", "-c",
            "cp susfs4ksu/kernel_patches/50_add_susfs_in_", SusfsBranch,
            ".patch .">>],
       [kind |-> "copy", argv |-> <<"bash", "-c",
            "cp -rv susfs4ksu/kernel_patches/fs/* fs/">>],
       [kind |-> "copy", argv |-> <<"bash", "-c",
            "cp -rv susfs4ksu/kernel_patches/include/linux/* include/linux/">>],
       [kind |-> "curl", argv |-> <<"curl", "-L", "-o", "manual-hook.patch",
            "https://github.com/SukiSU-Ultra/SukiSU_patch/raw/83aa64b7548890bb1f2eff6c990c03a1802df27b/hooks/scope_min_manual_hooks_v1.6.patch">>],
       [kind |-> "patch", argv |-> <<"bash", "-c",
            "patch -p1 --fuzz=3 < manual-hook.patch">>],
       [kind |-> "patch", argv |-> <<"bash", "-c",
            "patch -p1 --fuzz=3 < 50_add_susfs_in_", SusfsBranch, ".patch">>],
       [kind |-> "sed", argv |-> <<"sed", "-i",
            "/if (flags & CLONE_NEWNS)/d", "fs/namespace.c">>],
       [kind |-> "sed", argv |-> <<"sed", "-i",
            "/copy_flags |= CL_COPY_MNT_NS/d", "fs/namespace.c">>],
       [kind |-> "sed", argv |-> <<"sed", "-i",
            "s/copy_flags = CL_COPY_UNBINDABLE | CL_EXPIRE;/& if (flags \\& CLONE_NEWNS) copy_flags |= CL_COPY_MNT_NS;/",
            "fs/namespace.c">>] >>

\* lines 129-196: the commands of the wildksu branch, all run in
\* kernel_source, each only after the one before it has succeeded
WildCmds ==
    << [kind |-> "setup", argv |-> <<"bash", "-c",
            "curl -LSs 'https://raw.githubusercontent.com/WildKernels/Wild_KSU/wild/kernel/setup.sh' | bash -s wild">>],
       [kind |-> "clone", argv |-> <<"git", "clone", "-b", SusfsBranch,
            "--depth=1", "https://gitlab.com/simonpunk/susfs4ksu.git",
            "susfs4ksu">>],
       [kind |-> "copy", argv |-> <<"bash", "-c",
            "cp susfs4ksu/kernel_patches/50_add_susfs_in_", SusfsBranch,
            ".patch .">>],
       [kind |-> "copy", argv |-> <<"bash", "-c",
            "cp -rv susfs4ksu/kernel_patches/fs/* fs/">>],
       [kind |-> "copy", argv |-> <<"bash", "-c",
            "cp -rv susfs4ksu/kernel_patches/include/linux/* include/linux/">>],
       [kind |-> "patch", argv |-> <<"bash", "-c",
            "patch -p1 --fuzz=3 < 50_add_susfs_in_", SusfsBranch, ".patch">>],
       [kind |-> "curl", argv |-> <<"curl", "-L", "-o", "manual-hook.patch",
            "https://github.com/SukiSU-Ultra/SukiSU_patch/raw/83aa64b7548890bb1f2eff6c990c03a1802df27b/hooks/scope_min_manual_hooks_v1.6.patch">>],
       [kind |-> "patch", argv |-> <<"bash", "-c",
            "patch -p1 --fuzz=3 < manual-hook.patch">>],
       [kind |-> "sed", argv |-> <<"sed", "-i",
            "/if (flags & CLONE_NEWNS)/d", "fs/namespace.c">>],
       [kind |-> "sed", argv |-> <<"sed", "-i",
            "/copy_flags |= CL_COPY_MNT_NS/d", "fs/namespace.c">>],
       [kind |-> "sed", argv |-> <<"sed", "-i",
            "s/copy_flags = CL_COPY_UNBINDABLE | CL_EXPIRE;/& if (flags \\& CLONE_NEWNS) copy_flags |= CL_COPY_MNT_NS;/",
            "fs/namespace.c">>] >>

\* one of the commands of lines 129-196
WildStep(p) ==
    /\ At(p, "wild")
    /\ LET c == WildCmds[st[p].i]
       IN \E ok \in CanRunIn(fs.kernel_source) :
            /\ st' = [st EXCEPT ![p] =
                        [Try(@, RunCmd(c.kind, c.argv, KernelSource, ok),
                             IF st[p].i = Len(WildCmds)
                             THEN "wild_defconfig" ELSE "wild")
                         EXCEPT !.i = @ + 1]]
            /\ fs' = IF ok
                     THEN [fs EXCEPT !.namespace_c.content =
                                        SedEdit(c.argv, @)]
                     ELSE fs
    /\ UNCHANGED <<projects, env, args>>

\* mutant of WildDefconfig: a missing defconfig is an error
WildDefconfigFatal(p) ==
    /\ At(p, "wild_defconfig")
    /\ IF fs.defconfig.exists
       THEN /\ st' = [st EXCEPT ![p] =
                Go(@, FsOp("append", KernelSource \o
                              <<"arch", "arm64", "configs",
                                Proj(p).defconfig>>),
                   "kernel_version")]
            /\ fs' = [fs EXCEPT !.defconfig.content =
                        @ \o <<"CONFIG_KSU_KPROBES_HOOK=n",
                               "CONFIG_KSU_SUSFS_SUS_SU=n">>]
       ELSE /\ st' = [st EXCEPT ![p] = Fail(@, "Defconfig not found")]
            /\ UNCHANGED fs
    /\ UNCHANGED <<projects, env, args>>

\* lines 202-212: append the two directives to the defconfig, if it exists
WildDefconfig(p) ==
    /\ At(p, "wild_defconfig")
    /\ IF fs.defconfig.exists
       THEN /\ st' = [st EXCEPT ![p] =
                Go(@, FsOp("append", KernelSource \o
                              <<"arch", "arm64", "configs",
                                Proj(p).defconfig>>),
                   "kernel_version")]
            /\ fs' = [fs EXCEPT !.defconfig.content =
                        @ \o <<"CONFIG_KSU_KPROBES_HOOK=n",
                               "CONFIG_KSU_SUSFS_SUS_SU=n">>]
       ELSE /\ st' = [st EXCEPT ![p].pc = "kernel_version"]
            /\ UNCHANGED fs
    /\ UNCHANGED <<projects, env, args>>

\* lines 216-230: the setup script of a branch and its argument
SetupUrl(branch) ==
    CASE branch = B_resukisu ->
            Some(<<"https://raw.githubusercontent.com/ReSukiSU/ReSukiSU/main/kernel/setup.sh",
                   "builtin">>)
      [] branch = B_mksu ->
            Some(<<"https://raw.githubusercontent.com/5ec1cff/KernelSU/main/kernel/setup.sh",
                   "-">>)
      [] branch = B_ksu ->
            Some(<<"https://raw.githubusercontent.com/tiann/KernelSU/main/kernel/setup.sh",
                   "-">>)
      [] OTHER -> None

\* lines 232-236
StdSetup(p) ==
    /\ At(p, "setup")
    /\ LET setup_url == SetupUrl(args[p].branch)
       IN IF setup_url.some
          THEN \E ok \in CanRunIn(fs.kernel_source) :
                st' = [st EXCEPT ![p] =
                        Try(@, RunCmd("setup",
                                      <<"bash", "-c", "curl -LSs '",
                                        setup_url.val[1], "' | bash -s ",
                                        setup_url.val[2]>>,
                                      KernelSource, ok),
                            "kernel_version")]
          ELSE st' = [st EXCEPT ![p].pc = "kernel_version"]
    /\ UNCHANGED <<projects, env, fs, args>>

\* --------------------------------------- lines 239-245: kernel version
\* What run_cmd(.., capture = true) can return: Err, Ok(None), Ok(Some(out))
Captured(outputs) ==
    {[ok |-> FALSE, out |-> None], [ok |-> TRUE, out |-> None]}
        \cup {[ok |-> TRUE, out |-> Some(o)] : o \in outputs}

Whitespace == {" ", "\n", "\t"}

RECURSIVE TrimStart(_)
TrimStart(s) ==
    IF s # <<>> /\ Head(s) \in Whitespace THEN TrimStart(Tail(s)) ELSE s

RECURSIVE TrimEnd(_)
TrimEnd(s) ==
    IF s # <<>> /\ s[Len(s)] \in Whitespace
    THEN TrimEnd(SubSeq(s, 1, Len(s) - 1)) ELSE s

\* str::trim
Trim(s) == TrimEnd(TrimStart(s))

KernelVersions == {<<"5.15.137", "\n">>}
ShortShas == {<<"abc1234", "\n">>}
ProcCounts == {<<"8", "\n">>}
Dates == {<<"20240101-1200">>, <<"20240101-1201">>}

\* mutant of KernelVersion: the version query is given build_env
KernelVersionWithEnv(p) ==
    /\ At(p, "kernel_version")
    /\ \E r \in Captured(KernelVersions) :
        /\ r.ok => fs.kernel_source
        /\ st' = [st EXCEPT ![p] =
                    [Try(@, RunCmdWithEnv("kernelversion",
                                          <<"make", "kernelversion">>,
                                          KernelSource, st[p].build_env, r.ok),
                         "ccache_probe")
                     EXCEPT !.kernel_version =
                                Trim(UnwrapOr(r.out, <<"unknown">>))]]
    /\ UNCHANGED <<projects, env, fs, args>>

\* lines 241-244
KernelVersion(p) ==
    /\ At(p, "kernel_version")
    /\ \E r \in Captured(KernelVersions) :
        /\ r.ok => fs.kernel_source
        /\ st' = [st EXCEPT ![p] =
                    [Try(@, RunCmd("kernelversion", <<"make", "kernelversion">>,
                                   KernelSource, r.ok),
                         "ccache_probe")
                     EXCEPT !.kernel_version =
                                Trim(UnwrapOr(r.out, <<"unknown">>))]]
    /\ UNCHANGED <<projects, env, fs, args>>

\* ------------------------------------------ lines 247-265: make arguments
\* line 248: project_key.split('_').nth(1).unwrap_or("unknown")
TargetSoc(key) ==
    LET seps == {k \in 1..Len(key) : key[k] = "_"}
    IN IF seps = {} THEN <<"unknown">>
       ELSE LET a == CHOOSE k \in seps : \A m \in seps : k <= m
                later == seps \ {a}
                b == IF later = {} THEN Len(key) + 1
                     ELSE CHOOSE k \in later : \A m \in later : k <= m
            IN SubSeq(key, a + 1, b - 1)

\* lines 249-252
BaseMakeArgs(key) ==
    <<"O=out", "ARCH=arm64", "LLVM=1", "LLVM_IAS=1", "TARGET_SOC=">>
        \o TargetSoc(key)

\* lines 254-265: `which ccache` only probes; its failure selects the
\* plain compiler and is not an error of the pipeline
CcacheProbe(p) ==
    /\ At(p, "ccache_probe")
    /\ \E ok \in BOOLEAN :
        st' = [st EXCEPT ![p] =
            LET s == [@ EXCEPT !.log = Append(@, RunCmd("probe",
                                    <<"which", "ccache">>, NoPath, ok)),
                               !.make_args = BaseMakeArgs(args[p].project_key)]
            IN IF ok
               THEN [s EXCEPT
                       !.build_env =
                           [CC |-> <<"ccache clang">>,
                            CXX |-> <<"ccache clang++">>,
                            CCACHE_DIR |-> Display(Cwd) \o <<"/.ccache">>]
                           @@ @,
                       !.pc = "ccache_size"]
               ELSE [s EXCEPT !.make_args = @ \o <<"CC=clang">>,
                              !.pc = "defconfig"]]
    /\ UNCHANGED <<projects, env, fs, args>>

\* lines 261-262
CcacheSize(p) ==
    /\ At(p, "ccache_size")
    /\ \E ok \in BOOLEAN :
        st' = [st EXCEPT ![p] =
                [Try(@, RunCmd("ccache", <<"ccache", "-M", "5G">>, NoPath, ok),
                     "defconfig")
                 EXCEPT !.make_args = @ \o <<"CC=ccache clang">>]]
    /\ UNCHANGED <<projects, env, fs, args>>

\* ----------------------------------------- lines 267-352: configuration
Baseline ==
    <<"UH", "RKP", "KDP", "SECURITY_DEFEX", "INTEGRITY", "FIVE",
      "TRIM_UNUSED_KSYMS">>
ForcedDisables == <<"KSU_KPROBES_HOOK", "KSU_SUSFS_SUS_SU">>
ForcedEnables == <<"CONFIG_KSU_MANUAL_HOOK", "CONFIG_SUSFS">>

\* mutant of DisableConfigs: the forced entries are pushed before the
\* profile's
DisableConfigsForcedFirst(proj, branch) ==
    Baseline
        \o (IF branch = B_wildksu THEN ForcedDisables ELSE <<>>)
        \o UnwrapOr(proj.disable_security, <<>>)

\* lines 275-293: the disable batch
DisableConfigs(proj, branch) ==
    Baseline
        \o UnwrapOr(proj.disable_security, <<>>)
        \o (IF branch = B_wildksu THEN ForcedDisables ELSE <<>>)

\* scripts/config names an option with or without the CONFIG_ prefix
OptionName(name) ==
    CASE name = "CONFIG_KSU_MANUAL_HOOK" -> "KSU_MANUAL_HOOK"
      [] name = "CONFIG_SUSFS" -> "SUSFS"
      [] OTHER -> name

\* scripts/config --file out/.config -e NAME / --disable NAME
SetOption(cfg, name, value) ==
    [cfg EXCEPT !.content = (OptionName(name) :> value) @@ @]

\* what `make <defconfig>` can leave in out/.config
GeneratedConfigs ==
    {NoEnv,
     [UH |-> "y", KDP |-> "y", TRIM_UNUSED_KSYMS |-> "y",
      KSU_MANUAL_HOOK |-> "n", SUSFS |-> "n", KSU_KPROBES_HOOK |-> "y",
      KSU_SUSFS_SUS_SU |-> "y", LTO_CLANG_THIN |-> "n",
      LTO_CLANG_FULL |-> "y", PROCA |-> "y"]}

\* lines 268-272, and the batch of lines 275-293 built for the next steps
MakeDefconfig(p) ==
    /\ At(p, "defconfig")
    /\ \E ok \in CanRunIn(fs.kernel_source), generated \in GeneratedConfigs :
        /\ ~ok => generated = NoEnv
        /\ st' = [st EXCEPT ![p] =
                    [Try(@, RunCmdWithEnv("make",
                                <<"make">> \o st[p].make_args
                                    \o <<Proj(p).defconfig>>,
                                KernelSource, st[p].build_env, ok),
                         IF args[p].branch = B_wildksu
                         THEN "force_enable" ELSE "disable")
                     EXCEPT !.disable_configs =
                                DisableConfigs(Proj(p), args[p].branch),
                            !.i = 1]]
        /\ fs' = IF ok THEN [fs EXCEPT !.config = File(TRUE, generated)]
                 ELSE fs
    /\ UNCHANGED <<projects, env, args>>

ConfigCmd(flags) == <<"scripts/config", "--file", "out/.config">> \o flags

\* lines 296-305: the two enables of the wildksu branch
ForceEnable(p) ==
    /\ At(p, "force_enable")
    /\ LET name == ForcedEnables[st[p].i]
       IN \E ok \in CanRunIn(fs.kernel_source) :
            /\ st' = [st EXCEPT ![p] =
                        [Try(@, RunCmd("config", ConfigCmd(<<"-e", name>>),
                                       KernelSource, ok),
                             IF st[p].i = Len(ForcedEnables)
                             THEN "disable" ELSE "force_enable")
                         EXCEPT !.i = IF st[p].i = Len(ForcedEnables)
                                      THEN 1 ELSE @ + 1]]
            /\ fs' = IF ok THEN [fs EXCEPT !.config = SetOption(@, name, "y")]
                     ELSE fs
    /\ UNCHANGED <<projects, env, args>>

\* after the batch: the LTO edit if one is configured, else the commit hash
AfterDisable(proj) ==
    IF proj.lto.some /\ proj.lto.val \in {"thin", "full"}
    THEN "lto" ELSE "short_sha"

\* lines 308-320: one iteration of the disable loop
Disable(p) ==
    /\ At(p, "disable")
    /\ LET name == st[p].disable_configs[st[p].i]
       IN \E ok \in CanRunIn(fs.kernel_source) :
            /\ st' = [st EXCEPT ![p] =
                        [Try(@, RunCmd("config",
                                       ConfigCmd(<<"--disable", name>>),
                                       KernelSource, ok),
                             IF st[p].i = Len(st[p].disable_configs)
                             THEN AfterDisable(Proj(p)) ELSE "disable")
                         EXCEPT !.i = @ + 1]]
            /\ fs' = IF ok THEN [fs EXCEPT !.config = SetOption(@, name, "n")]
                     ELSE fs
    /\ UNCHANGED <<projects, env, args>>

\* lines 322-352
Lto(p) ==
    /\ At(p, "lto")
    /\ LET thin == Proj(p).lto.val = "thin"
           on == IF thin THEN "LTO_CLANG_THIN" ELSE "LTO_CLANG_FULL"
           off == IF thin THEN "LTO_CLANG_FULL" ELSE "LTO_CLANG_THIN"
       IN \E ok \in CanRunIn(fs.kernel_source) :
            /\ st' = [st EXCEPT ![p] =
                        Try(@, RunCmd("config",
                                      ConfigCmd(<<"-e", on, "-d", off>>),
                                      KernelSource, ok),
                            "short_sha")]
            /\ fs' = IF ok
                     THEN [fs EXCEPT !.config =
                            SetOption(SetOption(@, on, "y"), off, "n")]
                     ELSE fs
    /\ UNCHANGED <<projects, env, args>>

\* ------------------------------------------ lines 354-381: localversion
\* lines 355-360
ShortSha(p) ==
    /\ At(p, "short_sha")
    /\ \E r \in Captured(ShortShas) :
        /\ r.ok => fs.kernel_source
        /\ st' = [st EXCEPT ![p] =
                    [Try(@, RunCmd("git", <<"git", "rev-parse", "--short", "HEAD">>,
                                   KernelSource, r.ok),
                         "localversion")
                     EXCEPT !.short_sha = UnwrapOr(r.out, <<"unknown">>)]]
    /\ UNCHANGED <<projects, env, fs, args>>

\* mutant of VariantSuffix: an unknown label is used as it is
VariantSuffixAsIs(branch) ==
    CASE branch \in {B_main, B_lkm} -> <<"L", "K", "M">>
      [] branch = B_ksu -> <<"K", "S", "U">>
      [] branch = B_mksu -> <<"M", "K", "S", "U">>
      [] branch \in {B_resukisu, B_sukisuultra} ->
            <<"R", "e", "S", "u", "k", "i">>
      [] branch = B_wildksu -> <<"W", "i", "l", "d", "K", "S", "U">>
      [] OTHER -> branch

\* lines 362-369
VariantSuffix(branch) ==
    CASE branch \in {B_main, B_lkm} -> <<"L", "K", "M">>
      [] branch = B_ksu -> <<"K", "S", "U">>
      [] branch = B_mksu -> <<"M", "K", "S", "U">>
      [] branch \in {B_resukisu, B_sukisuultra} ->
            <<"R", "e", "S", "u", "k", "i">>
      [] branch = B_wildksu -> <<"W", "i", "l", "d", "K", "S", "U">>
      [] OTHER -> ToUppercase(branch)

\* line 371: format!("{}-{}", proj.localversion_base, variant_suffix)
Localversion(proj, branch) ==
    proj.localversion_base \o <<"-">> \o VariantSuffix(branch)

\* lines 373 and 392
FileMethod(proj) == UnwrapOr(proj.version_method, "param") = "file"

LocalversionFile == KernelSource \o <<"localversion">>

\* lines 362-381
SetLocalversion(p) ==
    /\ At(p, "localversion")
    /\ LET localversion == Localversion(Proj(p), args[p].branch)
           s == [st[p] EXCEPT
                    !.variant_suffix = VariantSuffix(args[p].branch),
                    !.localversion = localversion]
       IN IF FileMethod(Proj(p))
          THEN /\ st' = [st EXCEPT ![p] =
                            IF fs.kernel_source
                            THEN Go(s, FsOp("write", LocalversionFile), "nproc")
                            ELSE Fail(s, "io error")]
               /\ fs' = IF fs.kernel_source
                        THEN [fs EXCEPT !.localversion =
                                File(TRUE, localversion \o <<"-g">>
                                               \o st[p].short_sha)]
                        ELSE fs
          ELSE /\ st' = [st EXCEPT ![p] =
                            [s EXCEPT
                                !.make_args = @ \o <<"LOCALVERSION=">>,
                                !.build_env =
                                    [LOCALVERSION |-> localversion] @@ @,
                                !.pc = "nproc"]]
               /\ UNCHANGED fs
    /\ UNCHANGED <<projects, env, args>>

\* ------------------------------------------------ lines 383-394: build
\* line 384: an Ok(None) makes the unwrap() panic
Nproc(p) ==
    /\ At(p, "nproc")
    /\ \E r \in Captured(ProcCounts) :
        st' = [st EXCEPT ![p] =
                LET s == Try(@, RunCmd("nproc", <<"nproc">>, NoPath, r.ok),
                             "build")
                IN IF r.ok /\ ~r.out.some
                   THEN [s EXCEPT !.pc = "done", !.result = "panic",
                                  !.error = "unwrap on None"]
                   ELSE IF r.ok
                   THEN [s EXCEPT !.make_args =
                            <<"-j">> \o Trim(r.out.val) \o @]
                   ELSE s]
    /\ UNCHANGED <<projects, env, fs, args>>

\* mutant of Build: the image build is run without build_env
BuildPlain(p) ==
    /\ At(p, "build")
    /\ \E ok \in CanRunIn(fs.kernel_source), image \in BOOLEAN :
        /\ ~ok => ~image
        /\ st' = [st EXCEPT ![p] =
                    Try(@, RunCmd("make", <<"make">> \o st[p].make_args,
                                  KernelSource, ok),
                        "reset_localversion")]
        /\ fs' = IF image THEN [fs EXCEPT !.image = TRUE] ELSE fs
    /\ UNCHANGED <<projects, env, args>>

\* mutant of Build: a failed build empties the version file again
BuildRollback(p) ==
    /\ At(p, "build")
    /\ \E ok \in CanRunIn(fs.kernel_source), image \in BOOLEAN :
        /\ ~ok => ~image
        /\ st' = [st EXCEPT ![p] =
                    Try(@, RunCmdWithEnv("make",
                                <<"make">> \o st[p].make_args,
                                KernelSource, st[p].build_env, ok),
                        "reset_localversion")]
        /\ fs' = IF image THEN [fs EXCEPT !.image = TRUE]
                 ELSE IF ~ok /\ fs.localversion.exists
                 THEN [fs EXCEPT !.localversion = File(TRUE, <<>>)]
                 ELSE fs
    /\ UNCHANGED <<projects, env, args>>

\* lines 387-390: st.make_args now holds jobs followed by make_args
Build(p) ==
    /\ At(p, "build")
    /\ \E ok \in CanRunIn(fs.kernel_source), image \in BOOLEAN :
        /\ ~ok => ~image
        /\ st' = [st EXCEPT ![p] =
                    Try(@, RunCmdWithEnv("make",
                                <<"make">> \o st[p].make_args,
                                KernelSource, st[p].build_env, ok),
                        "reset_localversion")]
        /\ fs' = IF image THEN [fs EXCEPT !.image = TRUE] ELSE fs
    /\ UNCHANGED <<projects, env, args>>

\* mutant of ResetLocalversion: the version file is left as it is
ResetLocalversionSkip(p) ==
    /\ At(p, "reset_localversion")
    /\ st' = [st EXCEPT ![p].pc = "anykernel_remove"]
    /\ UNCHANGED <<projects, env, fs, args>>

\* lines 392-394
ResetLocalversion(p) ==
    /\ At(p, "reset_localversion")
    /\ IF FileMethod(Proj(p))
       THEN /\ st' = [st EXCEPT ![p] =
                        IF fs.kernel_source
                        THEN Go(@, FsOp("write", LocalversionFile),
                                "anykernel_remove")
                        ELSE Fail(@, "io error")]
            /\ fs' = IF fs.kernel_source
                     THEN [fs EXCEPT !.localversion = File(TRUE, <<>>)]
                     ELSE fs
       ELSE /\ st' = [st EXCEPT ![p].pc = "anykernel_remove"]
            /\ UNCHANGED fs
    /\ UNCHANGED <<projects, env, args>>

\* ---------------------------------------------- lines 396-454: packaging
DefaultAnyKernelRepo == "https://github.com/YuzakiKokuban/AnyKernel3.git"

\* mutant of AnyKernelRemove: an existing AnyKernel3 is left in place
AnyKernelRemoveKeep(p) ==
    /\ At(p, "anykernel_remove")
    /\ st' = [st EXCEPT ![p].pc = "anykernel_clone"]
    /\ UNCHANGED <<projects, env, fs, args>>

\* lines 403-405
AnyKernelRemove(p) ==
    /\ At(p, "anykernel_remove")
    /\ IF fs.anykernel.exists
       THEN /\ st' = [st EXCEPT ![p] =
                        Go(@, FsOp("remove_dir_all", AnyKernelDir),
                           "anykernel_clone")]
            /\ fs' = [fs EXCEPT !.anykernel = Dir(FALSE, {})]
       ELSE /\ st' = [st EXCEPT ![p].pc = "anykernel_clone"]
            /\ UNCHANGED fs
    /\ UNCHANGED <<projects, env, args>>

\* lines 407-411: git refuses to clone into an existing, non-empty directory
AnyKernelClone(p) ==
    /\ At(p, "anykernel_clone")
    /\ \E ok \in CanRunIn(~fs.anykernel.exists) :
        /\ st' = [st EXCEPT ![p] =
                    Try(@, RunCmd("clone",
                                  <<"git", "clone",
                                    UnwrapOr(Proj(p).anykernel_repo,
                                             DefaultAnyKernelRepo),
                                    "-b",
                                    UnwrapOr(Proj(p).anykernel_branch, "master"),
                                    "AnyKernel3">>,
                                  NoPath, ok),
                        "image_check")]
        /\ fs' = IF ok THEN [fs EXCEPT !.anykernel = Dir(TRUE, {"template"})]
                 ELSE fs
    /\ UNCHANGED <<projects, env, args>>

\* lines 413-416
ImageCheck(p) ==
    /\ At(p, "image_check")
    /\ st' = [st EXCEPT ![p] =
                IF fs.image THEN [@ EXCEPT !.pc = "image_copy"]
                ELSE Fail(@, "Image not found")]
    /\ UNCHANGED <<projects, env, fs, args>>

\* line 418
ImageCopy(p) ==
    /\ At(p, "image_copy")
    /\ LET can == fs.image /\ fs.anykernel.exists
       IN /\ st' = [st EXCEPT ![p] =
                     IF can
                     THEN Go(@, FsOp("copy", AnyKernelDir \o <<"Image">>), "zip")
                     ELSE Fail(@, "io error")]
          /\ fs' = IF can
                   THEN [fs EXCEPT !.anykernel.files = @ \cup {"Image"}]
                   ELSE fs
    /\ UNCHANGED <<projects, env, args>>

RECURSIVE TrimStartMatches(_, _)
\* str::trim_start_matches(c)
TrimStartMatches(s, c) ==
    IF s # <<>> /\ Head(s) = c THEN TrimStartMatches(Tail(s), c) ELSE s

\* line 421
ZipPrefix(proj) == UnwrapOr(proj.zip_name_prefix, <<"Kernel">>)

\* mutant of FinalZipName: the localversion is used as it is
FinalZipNameRaw(zip_prefix, kernel_version, localversion, date_str) ==
    zip_prefix \o <<"-">> \o kernel_version \o <<"-">>
        \o localversion \o <<"-">> \o date_str \o <<".zip">>

\* lines 423-427
FinalZipName(zip_prefix, kernel_version, localversion, date_str) ==
    zip_prefix \o <<"-">> \o kernel_version \o <<"-">>
        \o TrimStartMatches(localversion, "-") \o <<"-">> \o date_str
        \o <<".zip">>

ZipExcludes ==
    <<"-x", ".git*", "-x", ".github*", "-x", "README.md", "-x", "LICENSE",
      "-x", "*.gitignore", "-x", "patch_linux", "-x", "tools/boot.img.lz4",
      "-x", "tools/libmagiskboot.so">>

\* lines 420-454: the pipeline sees the exit status of zip only; whether
\* the archive is where line 461 looks for it is a separate matter
Zip(p) ==
    /\ At(p, "zip")
    /\ \E now \in Dates, ok \in CanRunIn(fs.anykernel.exists),
          written \in BOOLEAN :
        LET name == FinalZipName(ZipPrefix(Proj(p)), st[p].kernel_version,
                                 st[p].localversion, now)
        IN /\ ~ok => ~written
           /\ st' = [st EXCEPT ![p] =
                        [Try(@, RunCmd("zip",
                                       <<"zip", "-r9", "../">> \o name
                                           \o <<".">> \o ZipExcludes,
                                       AnyKernelDir, ok),
                             "release")
                         EXCEPT !.date_str = now, !.final_zip_name = name]]
           /\ fs' = IF written THEN [fs EXCEPT !.archives = @ \cup {name}]
                    ELSE fs
    /\ UNCHANGED <<projects, env, args>>

\* ------------------------------------------------ lines 456-489: release
\* line 458
ReleaseTag(zip_prefix, variant_suffix, date_str) ==
    zip_prefix \o <<"-">> \o variant_suffix \o <<"-">> \o date_str

\* line 459
ReleaseTitle(zip_prefix, variant_suffix, date_str) ==
    zip_prefix \o <<" ">> \o variant_suffix \o <<" Build (">> \o date_str
        \o <<")">>

\* lines 474-477
ReleaseNotes(branch, kernel_version) ==
    <<"Automated build for ">> \o branch \o <<"\n", "Kernel Version: ">>
        \o kernel_version

\* mutant of Release: the archive is published without being looked for
ReleaseUnchecked(p) ==
    /\ At(p, "release")
    /\ IF ~args[p].do_release
       THEN st' = [st EXCEPT ![p] = [@ EXCEPT !.pc = "done", !.result = "ok"]]
       ELSE \E ok \in BOOLEAN :
            st' = [st EXCEPT ![p] =
                    Try(@, RunCmd("release",
                                  <<"gh", "release", "create">>
                                      \o ReleaseTag(ZipPrefix(Proj(p)),
                                                    st[p].variant_suffix,
                                                    st[p].date_str)
                                      \o st[p].final_zip_name
                                      \o <<"--repo", Proj(p).repo, "--title">>
                                      \o ReleaseTitle(ZipPrefix(Proj(p)),
                                                      st[p].variant_suffix,
                                                      st[p].date_str)
                                      \o <<"--notes">>
                                      \o ReleaseNotes(args[p].branch,
                                                      st[p].kernel_version),
                                  NoPath, ok),
                        "notify")]
    /\ UNCHANGED <<projects, env, fs, args>>

\* lines 457-481 and 484-489
Release(p) ==
    /\ At(p, "release")
    /\ IF ~args[p].do_release
       THEN st' = [st EXCEPT ![p] = [@ EXCEPT !.pc = "done", !.result = "ok"]]
       ELSE IF st[p].final_zip_name \in fs.archives
       THEN \E ok \in BOOLEAN :
            st' = [st EXCEPT ![p] =
                    Try(@, RunCmd("release",
                                  <<"gh", "release", "create">>
                                      \o ReleaseTag(ZipPrefix(Proj(p)),
                                                    st[p].variant_suffix,
                                                    st[p].date_str)
                                      \o st[p].final_zip_name
                                      \o <<"--repo", Proj(p).repo, "--title">>
                                      \o ReleaseTitle(ZipPrefix(Proj(p)),
                                                      st[p].variant_suffix,
                                                      st[p].date_str)
                                      \o <<"--notes">>
                                      \o ReleaseNotes(args[p].branch,
                                                      st[p].kernel_version),
                                  NoPath, ok),
                        "notify")]
       ELSE st' = [st EXCEPT ![p] = Fail(@, "Final zip not found")]
    /\ UNCHANGED <<projects, env, fs, args>>

\* line 483: utils::handle_notify(release_tag)
Notify(p) ==
    /\ At(p, "notify")
    /\ \E ok \in BOOLEAN :
        st' = [st EXCEPT ![p] =
                LET s == Try(@, RunCmd("notify",
                                       <<"handle_notify">>
                                           \o ReleaseTag(ZipPrefix(Proj(p)),
                                                         st[p].variant_suffix,
                                                         st[p].date_str),
                                       NoPath, ok),
                             "done")
                IN IF ok THEN [s EXCEPT !.result = "ok"] ELSE s]
    /\ UNCHANGED <<projects, env, fs, args>>

\* ------------------------------------------------------- the pipeline
Next ==
    \/ \E p \in Procs : LookupProject(p)
    \/ \E p \in Procs : CheckSource(p)
    \/ \E p \in Procs : TcRemove(p)
    \/ \E p \in Procs : TcCreate(p)
    \/ \E p \in Procs : TcDownload(p)
    \/ \E p \in Procs : TcExtract(p)
    \/ \E p \in Procs : TcCleanup(p)
    \/ \E p \in Procs : ComposeEnv(p)
    \/ \E p \in Procs : WildStep(p)
    \/ \E p \in Procs : WildDefconfig(p)
    \/ \E p \in Procs : StdSetup(p)
    \/ \E p \in Procs : KernelVersion(p)
    \/ \E p \in Procs : CcacheProbe(p)
    \/ \E p \in Procs : CcacheSize(p)
    \/ \E p \in Procs : MakeDefconfig(p)
    \/ \E p \in Procs : ForceEnable(p)
    \/ \E p \in Procs : Disable(p)
    \/ \E p \in Procs : Lto(p)
    \/ \E p \in Procs : ShortSha(p)
    \/ \E p \in Procs : SetLocalversion(p)
    \/ \E p \in Procs : Nproc(p)
    \/ \E p \in Procs : Build(p)
    \/ \E p \in Procs : ResetLocalversion(p)
    \/ \E p \in Procs : AnyKernelRemove(p)
    \/ \E p \in Procs : AnyKernelClone(p)
    \/ \E p \in Procs : ImageCheck(p)
    \/ \E p \in Procs : ImageCopy(p)
    \/ \E p \in Procs : Zip(p)
    \/ \E p \in Procs : Release(p)
    \/ \E p \in Procs : Notify(p)

Spec == Init /\ [][Next]_vars

\* the pipeline over the files the text edits are applied to
SpecEdits == InitEdits /\ [][Next]_vars

\* two concurrent invocations: the operating system interleaves their steps
SpecPair == InitPair /\ [][Next]_vars

\* ============================================================== claims
Log(p) == st[p].log
Idx(p) == 1..Len(Log(p))
Known(p) == args[p].project_key \in DOMAIN projects

\* the value of an option in out/.config
Option(name) ==
    IF name \in DOMAIN fs.config.content THEN fs.config.content[name]
    ELSE "unset"

\* the labels of the pipeline in program order
PcOrder ==
    <<"start", "check_source", "toolchain", "tc_create", "tc_download",
      "tc_extract", "tc_cleanup", "env", "wild", "wild_defconfig", "setup",
      "kernel_version", "ccache_probe", "ccache_size", "defconfig",
      "force_enable", "disable", "lto", "short_sha", "localversion", "nproc",
      "build", "reset_localversion", "anykernel_remove", "anykernel_clone",
      "image_check", "image_copy", "zip", "release", "notify">>
Rank(label) == CHOOSE k \in 1..Len(PcOrder) : PcOrder[k] = label

\* p is still running and has completed the step labelled `label`
Past(p, label) == st[p].pc # "done" /\ Rank(st[p].pc) > Rank(label)

IsPrefix(a, b) == Len(a) <= Len(b) /\ SubSeq(b, 1, Len(a)) = a

\* ---------------------------------------------------------------- C1
FailedAt(p, k) == Log(p)[k].kind \notin {"fs", "probe"} /\ ~Log(p)[k].ok

\* C1. Fail-fast: once a command of the pipeline has reported failure
\* (any command but the `which ccache` probe, which the claim does not
\* list), that invocation is the last entry of the log, handle_build has
\* returned an error, and from then on the pipeline neither runs a command
\* nor touches the filesystem.
C1_FailFast ==
    /\ [](\A p \in Procs : \A k \in Idx(p) :
            FailedAt(p, k) =>
                /\ k = Len(Log(p))
                /\ st[p].result = "err"
                /\ st[p].pc = "done")
    /\ [][\A p \in Procs :
            (\E k \in Idx(p) : FailedAt(p, k)) =>
                (fs' = fs /\ st'[p] = st[p])]_vars

\* C1 witness: the image build fails after the defconfig, the configuration
\* edits and at least one filesystem operation of the pipeline
C1_Witness ==
    \E p \in Procs :
        /\ st[p].result = "err"
        /\ Len(Log(p)) > 0
        /\ Log(p)[Len(Log(p))].kind = "make"
        /\ Log(p)[Len(Log(p))].argv[2] = "-j"
        /\ ~Log(p)[Len(Log(p))].ok
        /\ \E k \in Idx(p) : Log(p)[k].kind = "fs"
        /\ \E k \in Idx(p) : Log(p)[k].kind = "config"

\* ---------------------------------------------------------------- C2
ComposedKeys ==
    {"PATH", "ARCH", "CLANG_TRIPLE", "CROSS_COMPILE", "CROSS_COMPILE_COMPAT"}

\* the external commands run after the Environment Composer stage
AfterComposer(e) == e.kind \notin {"fs", "download", "extract", "notify"}

\* C2 as stated: every external command after the Environment Composer is
\* run with the composed environment mapping.
C2_AllComposed ==
    \A p \in Procs : \A k \in Idx(p) :
        AfterComposer(Log(p)[k]) =>
            /\ Log(p)[k].with_env
            /\ ComposedKeys \subseteq DOMAIN Log(p)[k].envs

\* C2 amended: exactly the two build-tool invocations (make <defconfig>
\* and make -jN) are given the composed mapping, with the five fixed keys
\* and, when extra_host_env is set, the three host variables; every other
\* command after the Environment Composer is given no mapping at all and
\* runs with the environment the process inherited.
C2_OnlyBuildToolComposed ==
    \A p \in Procs : \A k \in Idx(p) :
        LET e == Log(p)[k]
        IN AfterComposer(e) =>
            IF e.kind = "make"
            THEN /\ e.with_env
                 /\ ComposedKeys \subseteq DOMAIN e.envs
                 /\ e.envs["ARCH"] = <<"arm64">>
                 /\ e.envs["CLANG_TRIPLE"] = <<"aarch64-linux-gnu-">>
                 /\ e.envs["CROSS_COMPILE"] = <<"aarch64-linux-gnu-">>
                 /\ e.envs["CROSS_COMPILE_COMPAT"] = <<"arm-linux-gnueabi-">>
                 /\ (Proj(p).extra_host_env = Some(TRUE)) <=>
                        ({"LD_LIBRARY_PATH", "HOSTCFLAGS", "HOSTLDFLAGS"}
                            \subseteq DOMAIN e.envs)
            ELSE ~e.with_env /\ DOMAIN e.envs = {}

\* C2 witness: a finished run with both build-tool invocations and a
\* scripts/config edit, a version query and a zip between and around them
C2_Witness ==
    \E p \in Procs :
        /\ st[p].result = "ok"
        /\ Proj(p).extra_host_env = Some(TRUE)
        /\ \E a, b, c, d \in Idx(p) :
            /\ Log(p)[a].kind = "kernelversion" /\ ~Log(p)[a].with_env
            /\ Log(p)[b].kind = "make" /\ Log(p)[b].with_env
            /\ Log(p)[c].kind = "config" /\ ~Log(p)[c].with_env
            /\ Log(p)[d].kind = "zip" /\ ~Log(p)[d].with_env
            /\ a < b /\ b < c /\ c < d

\* ---------------------------------------------------------------- C3
IsDefconfigMake(e) ==
    e.kind = "make" /\ e.argv[Len(e.argv)] = Defconfig
IsImageMake(e) == e.kind = "make" /\ e.argv[2] = "-j"

\* C3. At most one defconfig invocation and one image build are made, both
\* with the composed environment and no other command with it; the image
\* build comes only after a successful defconfig invocation; every
\* scripts/config edit comes after the successful defconfig invocation and
\* before the image build.
C3_BuildToolOrder ==
    \A p \in Procs :
        LET L == Log(p)
            D == {k \in Idx(p) : IsDefconfigMake(L[k])}
            B == {k \in Idx(p) : IsImageMake(L[k])}
            W == {k \in Idx(p) : L[k].with_env}
        IN /\ W = D \cup B
           /\ D \cap B = {}
           /\ Cardinality(D) <= 1
           /\ Cardinality(B) <= 1
           /\ \A b \in B : \E d \in D : d < b /\ L[d].ok
           /\ \A k \in Idx(p) :
                L[k].kind = "config" =>
                    /\ \E d \in D : d < k /\ L[d].ok
                    /\ \A b \in B : k < b

\* C3 witness: a run that reached the image build, with the LTO edit made
C3_Witness ==
    \E p \in Procs :
        /\ st[p].pc = "reset_localversion"
        /\ Cardinality({k \in Idx(p) : Log(p)[k].with_env}) = 2
        /\ \E k \in Idx(p) :
            Log(p)[k].kind = "config" /\ Log(p)[k].argv[4] = "-e"
                /\ Log(p)[k].argv[5] = "LTO_CLANG_THIN"

\* ---------------------------------------------------------------- C4
\* C4 as stated: for branch wildksu, when the Config Mutator stage has
\* completed, KSU_MANUAL_HOOK and SUSFS are enabled and KSU_KPROBES_HOOK and
\* KSU_SUSFS_SUS_SU are disabled in out/.config, whatever the profile's
\* additional disables are.
C4_NetState ==
    \A p \in Procs :
        (args[p].branch = B_wildksu /\ st[p].pc = "short_sha") =>
            /\ Option("KSU_MANUAL_HOOK") = "y"
            /\ Option("SUSFS") = "y"
            /\ Option("KSU_KPROBES_HOOK") = "n"
            /\ Option("KSU_SUSFS_SUS_SU") = "n"

\* ---------------------------------------------------------------- C5
IsDisable(e) == e.kind = "config" /\ e.argv[4] = "--disable"
IsForceEnable(e) ==
    e.kind = "config" /\ e.argv[4] = "-e"
        /\ e.argv[5] \in {"CONFIG_KSU_MANUAL_HOOK", "CONFIG_SUSFS"}
OptionsOf(entries) == [k \in 1..Len(entries) |-> entries[k].argv[5]]

\* C5. The --disable invocations made so far are a prefix of: the seven
\* baseline entries in order, then the profile's additional disables, then,
\* for wildksu only, KSU_KPROBES_HOOK and KSU_SUSFS_SUS_SU; once the batch
\* has run they are all of it.  For wildksu both force-enable invocations
\* (KSU_MANUAL_HOOK, then SUSFS) have succeeded before the first disable;
\* for any other branch there is no force-enable invocation.
C5_DisableBatch ==
    \A p \in Procs :
        Known(p) =>
        LET L == Log(p)
            wild == args[p].branch = B_wildksu
            done == OptionsOf(SelectSeq(L, IsDisable))
            batch ==
                <<"UH", "RKP", "KDP", "SECURITY_DEFEX", "INTEGRITY", "FIVE",
                  "TRIM_UNUSED_KSYMS">>
                \o (IF Proj(p).disable_security.some
                    THEN Proj(p).disable_security.val ELSE <<>>)
                \o (IF wild THEN <<"KSU_KPROBES_HOOK", "KSU_SUSFS_SUS_SU">>
                    ELSE <<>>)
            E == {k \in Idx(p) : IsForceEnable(L[k])}
        IN /\ IsPrefix(done, batch)
           /\ (Past(p, "disable") \/ st[p].result = "ok") => done = batch
           /\ ~wild => E = {}
           /\ wild =>
                /\ Cardinality(E) <= 2
                /\ \A d \in Idx(p) :
                    IsDisable(L[d]) =>
                        \E a, b \in E :
                            /\ a < b /\ b < d
                            /\ L[a].argv[5] = "CONFIG_KSU_MANUAL_HOOK"
                            /\ L[b].argv[5] = "CONFIG_SUSFS"
                            /\ L[a].ok /\ L[b].ok

\* C5 witness: a wildksu run with an additional disable has run its batch
C5_Witness ==
    \E p \in Procs :
        /\ Known(p)
        /\ args[p].branch = B_wildksu
        /\ Proj(p).disable_security = Some(<<"PROCA">>)
        /\ st[p].pc = "short_sha"
        /\ Len(SelectSeq(Log(p), IsDisable)) = 10

\* ---------------------------------------------------------------- C6
NoUrls(p) ==
    ~Proj(p).toolchain_urls.some \/ Proj(p).toolchain_urls.val = <<>>

\* C6 as stated: with no toolchain URL configured (field absent or an empty
\* list) the pipeline neither creates nor removes toolchain_download/, a
\* directory of that name that was there stays as it was, and no download
\* or extraction command is run.
C6_NoUrlsNoMutation ==
    \A p \in Procs :
        (Known(p) /\ NoUrls(p)) =>
            /\ \A k \in Idx(p) :
                /\ Log(p)[k].kind \notin {"download", "extract"}
                /\ Log(p)[k].kind = "fs" =>
                        Log(p)[k].argv[2] # "toolchain_download"
            /\ fs.toolchain_download.exists => "stale" \in fs.toolchain_download.files
            /\ fs.toolchain = {}

\* ---------------------------------------------------------------- C7
IsDownload(e) == e.kind = "download"
IsExtract(e) == e.kind = "extract"
Urls(p) == Proj(p).toolchain_urls.val

\* C7. With N URLs configured: the download invocations made so far fetch
\* a prefix of the list, in order, each in toolchain_download/; while
\* downloads and extraction run the directory exists and holds exactly the
\* files downloaded in this run, nothing older; at most one extraction is
\* invoked, and only after all N downloads have succeeded; once the
\* extraction has succeeded and the stage is over the directory is gone.
C7_Downloads ==
    \A p \in Procs :
        (Known(p) /\ Proj(p).toolchain_urls.some) =>
        LET L == Log(p)
            downloads == SelectSeq(L, IsDownload)
            fetched == [k \in 1..Len(downloads) |-> downloads[k].argv[3]]
            X == {k \in Idx(p) : IsExtract(L[k])}
        IN /\ IsPrefix(fetched, Urls(p))
           /\ \A k \in 1..Len(downloads) : downloads[k].cwd = TcDownloadDir
           /\ st[p].pc \in {"tc_download", "tc_extract"} =>
                /\ fs.toolchain_download.exists
                /\ fs.toolchain_download.files =
                        {fetched[k] : k \in 1..Len(fetched)}
           /\ Cardinality(X) <= 1
           /\ \A x \in X :
                /\ L[x].cwd = TcDownloadDir
                /\ fetched = Urls(p)
                /\ \A k \in 1..Len(downloads) : downloads[k].ok
                /\ \A k \in Idx(p) : IsDownload(L[k]) => k < x
           /\ ((\E x \in X : L[x].ok) /\ st[p].pc # "tc_cleanup") =>
                ~fs.toolchain_download.exists

\* C7 witness: two URLs, a scratch directory left over from an earlier
\* run, both downloads and the extraction done, the stage over
C7_Witness ==
    \E p \in Procs :
        /\ Known(p)
        /\ Proj(p).toolchain_urls = Some(<<"u1", "u2">>)
        /\ st[p].pc = "env"
        /\ Len(SelectSeq(Log(p), IsDownload)) = 2
        /\ Log(p)[1] = FsOp("remove_dir_all", TcDownloadDir)
        /\ fs.toolchain = {"u1", "u2"}
        /\ ~fs.toolchain_download.exists

\* ---------------------------------------------------------------- C8
RECURSIVE C8_Expected(_, _, _, _)
\* the segments of exports[1..k], the last one first, then the inherited
\* PATH; a relative sub-path lies under the toolchain root
C8_Expected(exports, k, root, inherited) ==
    IF k = 0 THEN inherited
    ELSE Display(IF exports[k][1] = "/" THEN exports[k]
                 ELSE root \o exports[k])
            \o <<":">> \o C8_Expected(exports, k - 1, root, inherited)

\* C8. Once the environment is composed, PATH is: for an explicit sub-path
\* list e1..eK, the segments eK, ..., e1 followed by the inherited PATH;
\* with no list and a non-empty toolchain path prefix, <root>/bin followed
\* by the inherited PATH; otherwise the inherited PATH (an unset PATH being
\* the empty string).
C8_SearchPath ==
    \A p \in Procs :
        (Known(p) /\ "PATH" \in DOMAIN st[p].build_env) =>
        LET proj == Proj(p)
            inherited == IF env.PATH.some THEN env.PATH.val ELSE <<>>
            prefix == IF proj.toolchain_path_prefix.some
                      THEN proj.toolchain_path_prefix.val ELSE <<>>
            root == <<"/", "work">> \o prefix
            exports == proj.toolchain_path_exports
        IN st[p].build_env["PATH"] =
            IF exports.some
            THEN C8_Expected(exports.val, Len(exports.val), root, inherited)
            ELSE IF prefix # <<>>
            THEN Display(root \o <<"bin">>) \o <<":">> \o inherited
            ELSE inherited

\* C8 witness: two sub-paths, the second absolute, under prefix tc
C8_Witness ==
    \E p \in Procs :
        /\ Known(p)
        /\ Proj(p).toolchain_path_exports =
                Some(<< <<"clang", "bin">>, <<"/", "opt", "gcc", "bin">> >>)
        /\ Proj(p).toolchain_path_prefix = Some(<<"tc">>)
        /\ env.PATH = Some(<<"/usr/bin">>)
        /\ "PATH" \in DOMAIN st[p].build_env
        /\ st[p].build_env["PATH"] =
            <<"/", "opt", "/", "gcc", "/", "bin", ":",
              "/", "work", "/", "tc", "/", "clang", "/", "bin", ":",
              "/usr/bin">>

\* ---------------------------------------------------------------- C9
IsIntegration(e) ==
    e.kind \in {"setup", "clone", "copy", "patch", "curl", "sed"}

\* the label that stands for a branch label's variant tag
C9_Tag(branch) ==
    IF branch = B_sukisuultra THEN B_resukisu
    ELSE IF branch = B_main THEN B_lkm
    ELSE branch

\* C9 as stated: when the integration stage is over, a branch whose tag is
\* ksu, mksu or resukisu/sukisuultra has run exactly one setup-script
\* command, in kernel_source; a branch whose tag is lkm/main or that is not
\* recognized has run no integration command; and the suffix is that of
\* the tag.
C9_TagDecidesActions ==
    \A p \in Procs :
        (st[p].pc = "kernel_version" /\ args[p].branch # B_wildksu) =>
        LET acts == SelectSeq(Log(p), IsIntegration)
            tag == C9_Tag(args[p].branch)
        IN /\ tag \in {B_ksu, B_mksu, B_resukisu} =>
                /\ Len(acts) = 1
                /\ acts[1].kind = "setup"
                /\ acts[1].cwd = KernelSource
           /\ tag \notin {B_ksu, B_mksu, B_resukisu} => Len(acts) = 0
           /\ VariantSuffix(args[p].branch) = VariantSuffix(tag)

\* ---------------------------------------------------------------- C10
\* C10. Once the localversion is computed, the variant suffix is the one
\* the table gives for the branch label (an unknown label upper-cased) and
\* the build identifier is <localversion_base>-<variant_suffix>, in every
\* scenario and whatever the earlier commands returned.
C10_SuffixTable ==
    \A p \in Procs :
        (Past(p, "localversion") \/ st[p].result = "ok") =>
        LET b == args[p].branch
            suffix == st[p].variant_suffix
        IN /\ b = <<"k", "s", "u">> => suffix = <<"K", "S", "U">>
           /\ b = <<"m", "k", "s", "u">> => suffix = <<"M", "K", "S", "U">>
           /\ b \in {<<"r", "e", "s", "u", "k", "i", "s", "u">>,
                     <<"s", "u", "k", "i", "s", "u", "u", "l", "t", "r", "a">>}
                => suffix = <<"R", "e", "S", "u", "k", "i">>
           /\ b = <<"w", "i", "l", "d", "k", "s", "u">>
                => suffix = <<"W", "i", "l", "d", "K", "S", "U">>
           /\ b \in {<<"m", "a", "i", "n">>, <<"l", "k", "m">>}
                => suffix = <<"L", "K", "M">>
           /\ b = <<"d", "e", "v">> => suffix = <<"D", "E", "V">>
           /\ b = <<"K", "s", "u">> => suffix = <<"K", "S", "U">>
           /\ Len(suffix) > 0
           /\ st[p].localversion =
                Proj(p).localversion_base \o <<"-">> \o suffix

\* C10 witness: an unknown label, a release build, the second base, the
\* file method, after a kernel version query without output
C10_Witness ==
    \E p \in Procs :
        /\ Known(p)
        /\ args[p].branch = B_dev
        /\ args[p].do_release
        /\ Proj(p).version_method = Some("file")
        /\ st[p].kernel_version = <<"unknown">>
        /\ st[p].pc = "nproc"
        /\ st[p].localversion = <<"-", "-", "X", "-", "D", "E", "V">>

\* ---------------------------------------------------------------- C11
\* the build identifier and the version stamp, spelt out
C11_Identifier(p) ==
    Proj(p).localversion_base \o <<"-">> \o st[p].variant_suffix
C11_Stamp(p) == C11_Identifier(p) \o <<"-g">> \o st[p].short_sha

IsLocalversionWrite(e) ==
    e.kind = "fs" /\ e.argv = <<"write", "kernel_source", "localversion">>

\* C11. With version_method = "file": from the write of the stamp until
\* the image build has ended (the pipeline is at the processor count
\* query, at the image build, or between the build and the reset, or the
\* build has just failed) kernel_source/localversion holds exactly
\* <identifier>-g<hash>, and once the reset after a successful build is
\* done it is empty.  With any other or no version_method the file is
\* never written, and an image build invocation carries the argument
\* LOCALVERSION= and the variable LOCALVERSION = <identifier>.
C11_VersionStamp ==
    \A p \in Procs :
        Known(p) =>
        LET L == Log(p)
            file == Proj(p).version_method = Some("file")
            B == {k \in Idx(p) : IsImageMake(L[k])}
        IN /\ file =>
                /\ (st[p].pc \in {"nproc", "build", "reset_localversion"}
                        \/ \E b \in B : ~L[b].ok) =>
                        fs.localversion = [exists |-> TRUE,
                                           content |-> C11_Stamp(p)]
                /\ \A b \in B :
                        \E w \in Idx(p) : w < b /\ IsLocalversionWrite(L[w])
                /\ (Past(p, "reset_localversion") \/ st[p].result = "ok") =>
                        fs.localversion = [exists |-> TRUE, content |-> <<>>]
           /\ ~file =>
                /\ ~fs.localversion.exists
                /\ \A k \in Idx(p) : ~IsLocalversionWrite(L[k])
                /\ \A b \in B :
                    /\ \E a \in 1..Len(L[b].argv) :
                            L[b].argv[a] = "LOCALVERSION="
                    /\ "LOCALVERSION" \in DOMAIN L[b].envs
                    /\ L[b].envs["LOCALVERSION"] = C11_Identifier(p)

\* C11 witness: a file-method run has built the image and reset the file
\* that held the stamp during the build
C11_Witness ==
    \E p \in Procs :
        /\ Known(p)
        /\ Proj(p).version_method = Some("file")
        /\ st[p].pc = "anykernel_remove"
        /\ fs.localversion = [exists |-> TRUE, content |-> <<>>]
        /\ Len(SelectSeq(Log(p), IsLocalversionWrite)) = 2
        /\ \E b \in Idx(p) : IsImageMake(Log(p)[b]) /\ Log(p)[b].ok

\* ---------------------------------------------------------------- C12
IsVersionQuery(e) == e.kind = "kernelversion"
IsHashQuery(e) ==
    e.kind = "git" /\ e.argv = <<"git", "rev-parse", "--short", "HEAD">>

\* C12 as stated: a kernel version query or a commit hash query that fails
\* does not abort the pipeline, and from then on the value it was to
\* supply is the literal "unknown"; the same holds when the query yields
\* no output.
C12_Fallbacks ==
    \A p \in Procs : \A k \in Idx(p) :
        LET e == Log(p)[k]
        IN /\ (IsVersionQuery(e) /\ ~e.ok) =>
                /\ ~(k = Len(Log(p)) /\ st[p].result = "err")
                /\ st[p].kernel_version = <<"unknown">>
           /\ (IsHashQuery(e) /\ ~e.ok) =>
                /\ ~(k = Len(Log(p)) /\ st[p].result = "err")
                /\ st[p].short_sha = <<"unknown">>

\* ---------------------------------------------------------------- C13
IsDefconfigAppend(e) == e.kind = "fs" /\ e.argv[1] = "append"

\* C13. The config-append step of the wildksu branch, reached only after
\* every earlier integration command succeeded, never fails: it goes on to
\* the kernel version query.  If arch/arm64/configs/<defconfig> does not
\* exist nothing is appended and no file is created; if it exists its new
\* content is its prior content followed by CONFIG_KSU_KPROBES_HOOK=n and
\* CONFIG_KSU_SUSFS_SUS_SU=n, in that order.  No other branch, and no
\* other step, appends to the defconfig.
C13_DefconfigAppend ==
    /\ [][\A p \in Procs :
            (st[p].pc = "wild_defconfig" /\ st'[p] # st[p]) =>
                /\ args[p].branch = <<"w", "i", "l", "d", "k", "s", "u">>
                /\ st'[p].pc = "kernel_version"
                /\ st'[p].result = "running"
                /\ fs'.defconfig.exists = fs.defconfig.exists
                /\ fs'.defconfig.content =
                        IF fs.defconfig.exists
                        THEN fs.defconfig.content
                                \o <<"CONFIG_KSU_KPROBES_HOOK=n",
                                      "CONFIG_KSU_SUSFS_SUS_SU=n">>
                        ELSE fs.defconfig.content
                /\ fs.defconfig.exists <=>
                        (Len(st'[p].log) = Len(st[p].log) + 1
                            /\ IsDefconfigAppend(st'[p].log[Len(st'[p].log)]))
                /\ ~fs.defconfig.exists => st'[p].log = st[p].log]_vars
    /\ [][(\A p \in Procs : st[p].pc # "wild_defconfig") =>
            fs'.defconfig = fs.defconfig]_vars
    /\ [](\A p \in Procs : \A k \in Idx(p) :
            IsDefconfigAppend(Log(p)[k]) =>
                /\ k > 11
                /\ \A j \in (k - 11)..(k - 1) :
                        Log(p)[j].ok /\ IsIntegration(Log(p)[j]))

\* C13 witness: a wildksu run without the defconfig file has got past the
\* append step, to the kernel version query and beyond
C13_Witness ==
    \E p \in Procs :
        /\ args[p].branch = B_wildksu
        /\ ~fs.defconfig.exists
        /\ st[p].pc = "ccache_probe"
        /\ Len(Log(p)) = 12
        /\ Log(p)[12].kind = "kernelversion"

\* ---------------------------------------------------------------- C14
\* the configuration of p is in error: no profile has exactly p's project
\* key, or kernel_source/ does not exist
C14_ConfigError(p) ==
    args[p].project_key \notin DOMAIN projects \/ ~fs.kernel_source

\* C14. With a project key that is not exactly the key of a profile, or
\* without kernel_source/, handle_build never gets past its two checks, its
\* result once it returns is an error, it invokes no external command and
\* performs no filesystem operation, and the working directory stays as
\* it was.
C14_ConfigErrors ==
    /\ [](\A p \in Procs :
            C14_ConfigError(p) =>
                /\ st[p].pc \in {"start", "check_source", "done"}
                /\ st[p].pc = "done" => st[p].result = "err"
                /\ st[p].log = <<>>)
    /\ [][(\E p \in Procs : C14_ConfigError(p)) => fs' = fs]_vars

\* C14 witnesses: the run without kernel_source/ has returned its error with
\* a toolchain configured and a stale scratch directory still in place
C14_Witness ==
    \E p \in Procs :
        /\ Known(p)
        /\ ~fs.kernel_source
        /\ Proj(p).toolchain_urls = Some(<<"u1">>)
        /\ st[p].pc = "done"
        /\ st[p].error = "Kernel source not found at ./kernel_source"
        /\ fs.toolchain_download = [exists |-> TRUE, files |-> {"stale"}]

\* ---------------------------------------------------------------- C15
IsPublish(e) == e.kind = "release"
IsNotify(e) == e.kind = "notify"
IsZip(e) == e.kind = "zip"

\* the tag <prefix>-<variant_suffix>-<timestamp>, spelt out
C15_Tag(p, timestamp) ==
    (IF Proj(p).zip_name_prefix.some THEN Proj(p).zip_name_prefix.val
     ELSE <<"Kernel">>)
        \o <<"-">> \o st[p].variant_suffix \o <<"-">> \o timestamp

\* C15. Without the release flag no publish command and no notification
\* is in the log.  With it: at most one of each; a publish command is
\* invoked only when the archive named by the zip invocation exists, with
\* the tag <prefix>-<variant_suffix>-<timestamp> and that archive, the
\* timestamp being the one in the archive name; a notification is invoked
\* only after a successful publish and carries the same tag; a run that
\* ends well has done both; and the run that finds the archive absent ends
\* in the error "Final zip not found" with neither in its log.
C15_Releaser ==
    \A p \in Procs :
        Known(p) =>
        LET L == Log(p)
            R == {k \in Idx(p) : IsPublish(L[k])}
            N == {k \in Idx(p) : IsNotify(L[k])}
            Z == {k \in Idx(p) : IsZip(L[k])}
        IN /\ ~args[p].do_release => R = {} /\ N = {}
           /\ Cardinality(R) <= 1 /\ Cardinality(N) <= 1
           /\ \A r \in R :
                \E z \in Z : \E T \in {<<"20240101-1200">>, <<"20240101-1201">>} :
                    LET name == SubSeq(L[z].argv, 4, Len(L[z].argv) - 17)
                    IN /\ z < r /\ L[z].ok
                       /\ name \in fs.archives
                       /\ SubSeq(name, Len(name) - 1, Len(name)) =
                                T \o <<".zip">>
                       /\ IsPrefix(<<"gh", "release", "create">>
                                        \o C15_Tag(p, T) \o name,
                                   L[r].argv)
           /\ \A n \in N :
                \E r \in R : \E T \in {<<"20240101-1200">>, <<"20240101-1201">>} :
                    /\ r < n /\ L[r].ok
                    /\ L[n].argv = <<"handle_notify">> \o C15_Tag(p, T)
                    /\ IsPrefix(<<"gh", "release", "create">>
                                    \o C15_Tag(p, T),
                                L[r].argv)
           /\ (args[p].do_release /\ st[p].result = "ok") =>
                \E r \in R, n \in N : L[r].ok /\ L[n].ok
           /\ st[p].error = "Final zip not found" =>
                /\ st[p].result = "err"
                /\ args[p].do_release
                /\ R = {} /\ N = {}
                /\ \A z \in Z :
                        SubSeq(L[z].argv, 4, Len(L[z].argv) - 17)
                            \notin fs.archives
           /\ (args[p].do_release /\ st[p].pc = "notify") =>
                \E r \in R : L[r].ok

\* C15 witness: a release run under the prefix Dev has published and
\* notified under the tag of the later timestamp
C15_Witness ==
    \E p \in Procs :
        /\ Known(p)
        /\ args[p].do_release
        /\ Proj(p).zip_name_prefix = Some(<<"Dev">>)
        /\ st[p].result = "ok"
        /\ Log(p)[Len(Log(p))].argv =
                <<"handle_notify", "Dev", "-", "K", "S", "U", "-",
                  "20240101-1201">>

\* the run that finds no archive where zip reported success
C15_AbsentSeen ==
    \E p \in Procs :
        st[p].error = "Final zip not found" /\ Log(p)[Len(Log(p))].ok

\* ---------------------------------------------------------------- C16
\* s without its first character, if that is the separator
C16_OneStripped(s) == IF s # <<>> /\ s[1] = "-" THEN Tail(s) ELSE s

\* s from its first character that is not the separator
C16_AllStripped(s) ==
    LET rest == {k \in 1..Len(s) : s[k] # "-"}
    IN IF rest = {} THEN <<>>
       ELSE SubSeq(s, CHOOSE k \in rest : \A m \in rest : k <= m, Len(s))

\* the name P-V-X-T.zip
C16_Name(p, X) ==
    (IF Proj(p).zip_name_prefix.some THEN Proj(p).zip_name_prefix.val
     ELSE <<"Kernel">>)
        \o <<"-">> \o st[p].kernel_version \o <<"-">> \o X \o <<"-">>
        \o st[p].date_str \o <<".zip">>

\* the zip invocation has been made
C16_Named(p) ==
    Known(p) /\ \E k \in Idx(p) : Log(p)[k].kind = "zip"

\* C16 as stated: the archive name is P-V-X-T.zip where X is the
\* localversion without its one leading separator.
C16_OneSeparatorStripped ==
    \A p \in Procs :
        C16_Named(p) =>
            st[p].final_zip_name =
                C16_Name(p, C16_OneStripped(
                    Proj(p).localversion_base \o <<"-">>
                        \o st[p].variant_suffix))

\* C16 amended: the archive name is P-V-X-T.zip where X is the
\* localversion without all of its leading separators; it is the name
\* the zip invocation is given, as ../<name>; for localversion_base -My
\* and branch ksu under the default prefix it is
\* Kernel-<version>-My-KSU-<timestamp>.zip.
C16_ArchiveName ==
    \A p \in Procs :
        C16_Named(p) =>
        LET name == st[p].final_zip_name
            zip == SelectSeq(Log(p), IsZip)[1]
        IN /\ name =
                C16_Name(p, C16_AllStripped(
                    Proj(p).localversion_base \o <<"-">>
                        \o st[p].variant_suffix))
           /\ IsPrefix(<<"zip", "-r9", "../">> \o name \o <<".">>, zip.argv)
           /\ (/\ Proj(p).localversion_base = <<"-", "M", "y">>
               /\ args[p].branch = <<"k", "s", "u">>
               /\ ~Proj(p).zip_name_prefix.some) =>
                    name = <<"Kernel", "-">> \o st[p].kernel_version
                            \o <<"-", "M", "y", "-", "K", "S", "U", "-">>
                            \o st[p].date_str \o <<".zip">>

\* C16 witness: the base --X and an unknown kernel version
C16_Witness ==
    \E p \in Procs :
        /\ C16_Named(p)
        /\ Proj(p).localversion_base = <<"-", "-", "X">>
        /\ st[p].final_zip_name =
                <<"Kernel", "-", "unknown", "-", "X", "-", "M", "K", "S", "U",
                  "-", "20240101-1200", ".zip">>
        /\ st[p].final_zip_name \in fs.archives

\* ---------------------------------------------------------------- C17
\* an integration command or the defconfig append
IsWildAction(e) == IsIntegration(e) \/ IsDefconfigAppend(e)

\* the wildksu integration actions in the order of the claim
C17_Order ==
    << <<"bash", "-c",
         "curl -LSs 'https://raw.githubusercontent.com/WildKernels/Wild_KSU/wild/kernel/setup.sh' | bash -s wild">>,
       <<"git", "clone", "-b", "gki-android13-5.15", "--depth=1",
         "https://gitlab.com/simonpunk/susfs4ksu.git", "susfs4ksu">>,
       <<"bash", "-c", "cp susfs4ksu/kernel_patches/50_add_susfs_in_",
         "gki-android13-5.15", ".patch .">>,
       <<"bash", "-c", "cp -rv susfs4ksu/kernel_patches/fs/* fs/">>,
       <<"bash", "-c",
         "cp -rv susfs4ksu/kernel_patches/include/linux/* include/linux/">>,
       <<"bash", "-c", "patch -p1 --fuzz=3 < 50_add_susfs_in_",
         "gki-android13-5.15", ".patch">>,
       <<"curl", "-L", "-o", "manual-hook.patch",
         "https://github.com/SukiSU-Ultra/SukiSU_patch/raw/83aa64b7548890bb1f2eff6c990c03a1802df27b/hooks/scope_min_manual_hooks_v1.6.patch">>,
       <<"bash", "-c", "patch -p1 --fuzz=3 < manual-hook.patch">>,
       <<"sed", "-i", "/if (flags & CLONE_NEWNS)/d", "fs/namespace.c">>,
       <<"sed", "-i", "/copy_flags |= CL_COPY_MNT_NS/d", "fs/namespace.c">>,
       <<"sed", "-i",
         "s/copy_flags = CL_COPY_UNBINDABLE | CL_EXPIRE;/& if (flags \\& CLONE_NEWNS) copy_flags |= CL_COPY_MNT_NS;/",
         "fs/namespace.c">>,
       <<"append", "kernel_source", "arch", "arm64", "configs",
         "socA_defconfig">> >>

\* C17. For branch wildksu the integration actions taken so far are the
\* first ones of the fixed order (setup script, depth-one clone, the three
\* copies, the patch, the hook download, the hook patch, the three edits of
\* fs/namespace.c, the defconfig append), all before the kernel version
\* query, each command run in kernel_source and each action but the last
\* one taken a success; once
\* the stage is over with the defconfig present all twelve are there; no
\* other setup script is among them.
C17_WildOrder ==
    \A p \in Procs :
        args[p].branch = <<"w", "i", "l", "d", "k", "s", "u">> =>
        LET V == {k \in Idx(p) : IsVersionQuery(Log(p)[k])}
            stage == IF V = {} THEN Log(p)
                     ELSE SubSeq(Log(p), 1,
                                 (CHOOSE k \in V : \A m \in V : k <= m) - 1)
            acts == SelectSeq(stage, IsWildAction)
            n == Len(acts)
        IN /\ n <= 12
           /\ \A k \in 1..n :
                /\ acts[k].argv = C17_Order[k]
                /\ k < 12 => acts[k].cwd = <<"kernel_source">>
                /\ k < n => acts[k].ok
           /\ (Past(p, "wild_defconfig") /\ fs.defconfig.exists) => n = 12
           /\ (Past(p, "wild_defconfig") /\ ~fs.defconfig.exists) => n = 11
           /\ st[p].pc = "wild" => n = st[p].i - 1

\* C17 witness: the twelve actions are done and the version query is next
C17_Witness ==
    \E p \in Procs :
        /\ args[p].branch = B_wildksu
        /\ st[p].pc = "kernel_version"
        /\ Len(SelectSeq(Log(p), IsWildAction)) = 12
        /\ Log(p)[Len(Log(p))].argv[1] = "append"

\* ---------------------------------------------------------------- C19
IsEdit(e) == e.kind = "sed"
C19_Has(line, text) == \E k \in 1..Len(line) : line[k] = text

\* the three edits of fs/namespace.c have been applied
C19_Edited(p) ==
    /\ args[p].branch = <<"w", "i", "l", "d", "k", "s", "u">>
    /\ LET edits == SelectSeq(Log(p), IsEdit)
       IN Len(edits) = 3 /\ \A k \in 1..3 : edits[k].ok

\* the anchor occurs in the file, on lines that match neither delete
C19_Anchored(file) ==
    /\ \E k \in 1..Len(file) :
            C19_Has(file[k], "copy_flags = CL_COPY_UNBINDABLE | CL_EXPIRE;")
    /\ \A k \in 1..Len(file) :
            C19_Has(file[k], "copy_flags = CL_COPY_UNBINDABLE | CL_EXPIRE;") =>
                /\ ~C19_Has(file[k], "if (flags & CLONE_NEWNS)")
                /\ ~C19_Has(file[k], "copy_flags |= CL_COPY_MNT_NS")

\* the line with the clause directly after the first anchor text
C19_WithClause(line) ==
    LET at == {k \in 1..Len(line) :
                line[k] = "copy_flags = CL_COPY_UNBINDABLE | CL_EXPIRE;"}
        a == CHOOSE k \in at : \A m \in at : k <= m
    IN [k \in 1..(Len(line) + 5) |->
            IF k <= a THEN line[k]
            ELSE IF k = a + 1 THEN " "
            ELSE IF k = a + 2 THEN "if (flags & CLONE_NEWNS)"
            ELSE IF k = a + 3 THEN " "
            ELSE IF k = a + 4 THEN "copy_flags |= CL_COPY_MNT_NS"
            ELSE IF k = a + 5 THEN ";"
            ELSE line[k - 5]]

\* C19. Once the three edits have been applied, with B the file before
\* them and A the file after: the lines of A are, in their order in B,
\* the lines of B that held neither the guard nor the accumulation
\* statement; such a line without the anchor is unchanged, and one with
\* the anchor has the clause directly after the (first) anchor text and is
\* otherwise unchanged.  If the anchor occurs in B on lines matching
\* neither delete, the lines of A that hold the guard or the statement
\* are exactly its anchor lines, as many as in B.  If the anchor does not
\* occur in B, the third edit leaves the file as it is and A holds
\* neither the guard nor the statement.
C19_Relocation ==
    /\ [](\A p \in Procs :
            C19_Edited(p) =>
            LET B == fs.namespace_c.before
                A == fs.namespace_c.content
                kept == {k \in 1..Len(B) :
                            /\ ~C19_Has(B[k], "if (flags & CLONE_NEWNS)")
                            /\ ~C19_Has(B[k], "copy_flags |= CL_COPY_MNT_NS")}
                nth(j) == CHOOSE k \in kept :
                            Cardinality({m \in kept : m <= k}) = j
                anchored(f) ==
                    {k \in 1..Len(f) :
                        C19_Has(f[k],
                                "copy_flags = CL_COPY_UNBINDABLE | CL_EXPIRE;")}
                guarded == {k \in 1..Len(A) :
                            \/ C19_Has(A[k], "if (flags & CLONE_NEWNS)")
                            \/ C19_Has(A[k], "copy_flags |= CL_COPY_MNT_NS")}
            IN /\ Len(A) = Cardinality(kept)
               /\ \A j \in 1..Len(A) :
                    A[j] = IF nth(j) \in anchored(B)
                           THEN C19_WithClause(B[nth(j)])
                           ELSE B[nth(j)]
               /\ C19_Anchored(B) =>
                    /\ guarded = anchored(A)
                    /\ Cardinality(anchored(A)) = Cardinality(anchored(B))
               /\ anchored(B) = {} => guarded = {})
    /\ [][\A p \in Procs :
            (/\ st[p].pc = "wild" /\ st[p].i = 11 /\ st'[p] # st[p]
             /\ \A k \in 1..Len(fs.namespace_c.content) :
                    ~C19_Has(fs.namespace_c.content[k],
                             "copy_flags = CL_COPY_UNBINDABLE | CL_EXPIRE;")) =>
                fs'.namespace_c = fs.namespace_c]_vars

\* C19 witness: a guard line and an anchor line; the anchor line alone is
\* left, with the clause after the anchor
C19_Witness ==
    \E p \in Procs :
        /\ C19_Edited(p)
        /\ fs.namespace_c.before = << <<"  ", Guard>>, <<"  ", Anchor>> >>
        /\ fs.namespace_c.content =
                << <<"  ", "copy_flags = CL_COPY_UNBINDABLE | CL_EXPIRE;", " ",
                     "if (flags & CLONE_NEWNS)", " ",
                     "copy_flags |= CL_COPY_MNT_NS", ";">> >>

\* without the anchor the hook logic is gone from the file and the pipeline
\* goes on
C19_AbsentContinues ==
    \E p \in Procs :
        /\ C19_Edited(p)
        /\ fs.namespace_c.before =
                << <<"    ", Accumulation, ";">>, <<"int err;">> >>
        /\ fs.namespace_c.content = << <<"int err;">> >>
        /\ st[p].pc = "ccache_probe"

\* ---------------------------------------------------------------- C20
\* the image build was invoked and failed
C20_BuildFailed(p) ==
    /\ Len(Log(p)) > 0
    /\ IsImageMake(Log(p)[Len(Log(p))])
    /\ ~Log(p)[Len(Log(p))].ok

\* C20. With version_method = "file", when the image build has failed
\* handle_build has returned an error and kernel_source/localversion
\* still holds <identifier>-g<hash>.  In general the step in which a run
\* fails leaves the filesystem exactly as the earlier steps of the run
\* made it, and nothing is changed after the failure.
C20_NoRollback ==
    /\ [](\A p \in Procs :
            (Known(p) /\ C20_BuildFailed(p)) =>
                /\ st[p].pc = "done" /\ st[p].result = "err"
                /\ Proj(p).version_method = Some("file") =>
                        fs.localversion =
                            [exists |-> TRUE,
                             content |-> Proj(p).localversion_base \o <<"-">>
                                            \o st[p].variant_suffix
                                            \o <<"-g">> \o st[p].short_sha])
    /\ [][\A p \in Procs :
            (st'[p].result = "err" \/ st[p].result = "err") => fs' = fs]_vars

\* C20 witness: a file-method run whose image build failed, the stamp and
\* the edited .config still in place
C20_Witness ==
    \E p \in Procs :
        /\ Known(p)
        /\ C20_BuildFailed(p)
        /\ Proj(p).version_method = Some("file")
        /\ fs.localversion.content =
                <<"-", "M", "y", "-", "K", "S", "U", "-g", "abc1234", "\n">>
        /\ fs.config.exists
        /\ Option("UH") = "n"

\* ---------------------------------------------------------------- C18
\* p has created toolchain_download/ and has not finished with it
C18_UsesScratch(p) == st[p].pc \in {"tc_download", "tc_extract", "tc_cleanup"}

\* p has cloned AnyKernel3/ and has not finished packaging it
C18_UsesTemplate(p) == st[p].pc \in {"image_check", "image_copy", "zip"}

\* C18. Nothing keeps one invocation from removing a fixed-path directory
\* that another one is using: whenever an invocation q takes its step at
\* the removal of toolchain_download/ (or of AnyKernel3/) while the
\* directory exists and another invocation p is between creating it and
\* finishing its use of it, the directory is gone after the step, files
\* of p included, and p is still in the middle of its use.
C18_NoExclusion ==
    [][\A p, q \in Procs :
        (p # q /\ st'[q] # st[q]) =>
            /\ (/\ C18_UsesScratch(p)
                /\ st[q].pc = "toolchain"
                /\ fs.toolchain_download.exists) =>
                    /\ ~fs'.toolchain_download.exists
                    /\ fs'.toolchain_download.files = {}
                    /\ C18_UsesScratch(p)'
            /\ (/\ C18_UsesTemplate(p)
                /\ st[q].pc = "anykernel_remove"
                /\ fs.anykernel.exists) =>
                    /\ ~fs'.anykernel.exists
                    /\ fs'.anykernel.files = {}
                    /\ C18_UsesTemplate(p)']_vars

\* C18 witness: invocation 1 has downloaded its toolchain archive and is
\* about to extract it in a scratch directory that invocation 2 has just
\* removed
C18_Witness ==
    /\ Procs = {1, 2}
    /\ st[1].pc = "tc_extract"
    /\ Len(Log(1)) > 0
    /\ Log(1)[Len(Log(1))].kind = "download" /\ Log(1)[Len(Log(1))].ok
    /\ st[2].pc = "tc_create"
    /\ Log(2) = <<[kind |-> "fs",
                   argv |-> <<"remove_dir_all", "toolchain_download">>,
                   cwd |-> <<>>, with_env |-> FALSE,
                   envs |-> [k \in {} |-> <<>>], ok |-> TRUE]>>
    /\ ~fs.toolchain_download.exists

\* the same for AnyKernel3/: invocation 1 is about to zip a template that
\* invocation 2 has removed
C18_TemplateGone ==
    /\ Procs = {1, 2}
    /\ st[1].pc = "zip"
    /\ st[2].pc = "anykernel_clone"
    /\ ~fs.anykernel.exists

====
